---- MODULE Spec2Model ----
(***************************************************************************)
(* Model of the news curation pipeline of scripts/update-news.mjs (the     *)
(* later of the two versions kept in that file, lines 167-365): feeds are  *)
(* fetched concurrently, the fetched items are scored, filtered, sorted,   *)
(* deduplicated, limited per source and written out.                       *)
(*                                                                         *)
(* Strings are sequences of one-character strings.  The characters that    *)
(* have no ASCII form are written as the tokens "EMDASH", "BULLET" and     *)
(* "MIDDOT".  Time is counted in hours.  Scores are the code's floating    *)
(* point scores multiplied by Scale and kept as integers.                  *)
(***************************************************************************)
EXTENDS Integers, Sequences, FiniteSets, TLC

(***************************************************************************)
(* Characters and the character classes of the regular expressions.        *)
(***************************************************************************)
UpperChars == <<"A","B","C","D","E","F","G","H","I","J","K","L","M",
                "N","O","P","Q","R","S","T","U","V","W","X","Y","Z">>

LowerChars == <<"a","b","c","d","e","f","g","h","i","j","k","l","m",
                "n","o","p","q","r","s","t","u","v","w","x","y","z">>

DigitChars == <<"0","1","2","3","4","5","6","7","8","9">>

Range(s) == { s[i] : i \in 1..Len(s) }

\* \s of a JavaScript regular expression, and what String.prototype.trim strips
WhiteSpace == {" ", "\t", "\n", "\r"}

\* the characters "." does not match
LineTerminators == {"\n", "\r"}

\* the class [-|•·] of normalizeTitle
Separators == {"-", "|", "BULLET", "MIDDOT"}

UpperSet == Range(UpperChars)

\* [a-z0-9]
LowerAlnum == Range(LowerChars) \cup Range(DigitChars)

\* [a-z0-9\s]
LowerAlnumOrSpace == LowerAlnum \cup WhiteSpace

\* \w, which decides where \b holds
WordChars == Range(LowerChars) \cup Range(UpperChars) \cup Range(DigitChars) \cup {"_"}

ToLowerChar(c) ==
  IF c \in UpperSet
    THEN LowerChars[CHOOSE i \in 1..Len(UpperChars) : UpperChars[i] = c]
    ELSE c

\* String.prototype.toLowerCase
toLowerCase(s) == [i \in 1..Len(s) |-> ToLowerChar(s[i])]

\* String.prototype.trim
trim(s) ==
  IF \A i \in 1..Len(s) : s[i] \in WhiteSpace THEN <<>>
  ELSE LET lo == CHOOSE i \in 1..Len(s) :
                   s[i] \notin WhiteSpace /\ \A j \in 1..(i - 1) : s[j] \in WhiteSpace
           hi == CHOOSE i \in 1..Len(s) :
                   s[i] \notin WhiteSpace /\ \A j \in (i + 1)..Len(s) : s[j] \in WhiteSpace
       IN  SubSeq(s, lo, hi)

\* the positions j of s from which ".*$" matches: no line terminator after j
DotStarToEnd(s, j) == \A k \in (j+1)..Len(s) : s[k] \notin LineTerminators

\* s.replace(/\s*[-|•·].*$/, ''): the leftmost match starts at the white space
\* that runs up to the first separator with no line terminator after it
StripSuffix(s) ==
  LET seps == { j \in 1..Len(s) : s[j] \in Separators /\ DotStarToEnd(s, j) }
  IN  IF seps = {} THEN s
      ELSE LET j == CHOOSE x \in seps : \A y \in seps : x <= y
               starts == { i \in 1..j : \A k \in i..(j-1) : s[k] \in WhiteSpace }
               i == CHOOSE x \in starts : \A y \in starts : x <= y
           IN  SubSeq(s, 1, i - 1)

\* s.replace(/[^a-z0-9\s]/g, ' ')
BlankNonAlnum(s) ==
  [i \in 1..Len(s) |-> IF s[i] \in LowerAlnumOrSpace THEN s[i] ELSE " "]

\* s.replace(/\s+/g, ' '): every run of white space becomes one space
CollapseSpaces(s) ==
  LET kept == SelectSeq([i \in 1..Len(s) |-> i],
                        LAMBDA i : \/ s[i] \notin WhiteSpace
                                   \/ i = Len(s)
                                   \/ s[i + 1] \notin WhiteSpace)
  IN  [k \in 1..Len(kept) |-> IF s[kept[k]] \in WhiteSpace THEN " " ELSE s[kept[k]]]

\* normalizeTitle without the replace that drops the site suffix
normalizeTitle_NoSuffixStrip(title) ==
  trim(CollapseSpaces(BlankNonAlnum(toLowerCase(title))))

normalizeTitle(title) ==
  trim(CollapseSpaces(BlankNonAlnum(StripSuffix(toLowerCase(title)))))

\* item.url.replace(/\?.*$/, ''): cut at the first '?' with no line
\* terminator after it
urlKey(url) ==
  LET qs == { j \in 1..Len(url) : url[j] = "?" /\ DotStarToEnd(url, j) }
  IN  IF qs = {} THEN url
      ELSE SubSeq(url, 1, (CHOOSE x \in qs : \A y \in qs : x <= y) - 1)

(***************************************************************************)
(* Keyword tests of scoreItem.                                             *)
(***************************************************************************)
\* the pattern p (lower case) matches s at position i, ignoring case (/i)
MatchesAt(s, p, i) ==
  /\ i + Len(p) - 1 <= Len(s)
  /\ \A k \in 1..Len(p) : ToLowerChar(s[i + k - 1]) = p[k]

\* \b holds between positions i-1 and i of s
WordBoundary(s, i) ==
  (i > 1 /\ s[i-1] \in WordChars) # (i <= Len(s) /\ s[i] \in WordChars)

\* /\bp\b/i.test(s)
TestWord(s, p) ==
  \E i \in 1..(Len(s) - Len(p) + 1) :
    WordBoundary(s, i) /\ MatchesAt(s, p, i) /\ WordBoundary(s, i + Len(p))

\* /\bstock(s)?\b/i is the two words "stock" and "stocks"
FINANCE_NOISE_PATTERNS ==
  { <<"s","t","o","c","k">>,
    <<"s","t","o","c","k","s">>,
    <<"n","a","s","d","a","q">>,
    <<"y","a","h","o","o"," ","f","i","n","a","n","c","e">>,
    <<"b","u","y">>,
    <<"m","i","l","l","i","o","n","a","i","r","e">>,
    <<"w","a","l","l"," ","s","t","r","e","e","t">>,
    <<"p","r","i","c","e"," ","t","a","r","g","e","t">> }

\* the alternatives of /\b(research|policy|...|open source)\b/i
BonusWords ==
  { <<"r","e","s","e","a","r","c","h">>,
    <<"p","o","l","i","c","y">>,
    <<"m","o","d","e","l">>,
    <<"r","e","l","e","a","s","e">>,
    <<"l","a","u","n","c","h">>,
    <<"s","a","f","e","t","y">>,
    <<"b","e","n","c","h","m","a","r","k">>,
    <<"o","p","e","n"," ","s","o","u","r","c","e">> }

MatchesFinanceNoise(title) == \E p \in FINANCE_NOISE_PATTERNS : TestWord(title, p)

MatchesBonus(title) == \E p \in BonusWords : TestWord(title, p)

(***************************************************************************)
(* Feeds and the constants of the script.                                  *)
(***************************************************************************)
\* the weight column of FEEDS; a feed is named by its position in FEEDS
FEEDS == <<1, 3, 3, 3, 4, 4, 4, 3, 2>>

FeedIds == 1..Len(FEEDS)

MAX_ITEMS_PER_FEED == 20

TOP_N == 10

MAX_PER_SOURCE == 2

\* the age beyond which scoreItem returns the sentinel
CutoffHours == 72

\* integer scores are the code's scores times Scale
Scale == 10^4

\* the sentinel -9999 and the threshold -100 of the filter in main
Sentinel == (0 - 9999) * Scale

FilterThreshold == (0 - 100) * Scale

\* a date field: a time in hours, a string that does not parse, or no value
Time(t) == [kind |-> "time", t |-> t]

INVALID == [kind |-> "invalid", t |-> 0]

NODATE == [kind |-> "absent", t |-> 0]

\* a text field: a string, or no value
Text(s) == [has |-> TRUE, s |-> s]

ABSENT == [has |-> FALSE, s |-> <<>>]

(***************************************************************************)
(* scoreItem.                                                              *)
(***************************************************************************)
\* 10 * Math.exp(-0.05 * ageHours), times Scale: exp(-0.05) is 0.9512 to four
\* places, applied once per hour of age
Decay[a \in 0..CutoffHours] ==
  IF a = 0 THEN 10 * Scale ELSE (Decay[a - 1] * 9512) \div 10000

Max(a, b) == IF a >= b THEN a ELSE b

Min(a, b) == IF a <= b THEN a ELSE b

\* Math.max(0, (now - published.getTime()) / 3600000); tNew is the clock read
\* by the fallback "new Date()", tNow the clock read by "Date.now()"
ageHours(item, tNew, tNow) ==
  LET published == IF item.publishedAt.kind = "time" THEN item.publishedAt.t
                   ELSE tNew
  IN  Max(0, tNow - published)

\* Math.min(title.length / 80, 1), times Scale
titleQuality(title) == Min(Len(title) * (Scale \div 80), Scale)

\* scoreItem without the hard filter: recency is that of the cutoff age
scoreItem_NoCutoff(item, feedWeight, tNew, tNow) ==
  LET age == Min(ageHours(item, tNew, tNow), CutoffHours)
  IN  Decay[age] + feedWeight * (Scale \div 2) + titleQuality(item.title)
        + (IF MatchesBonus(item.title) THEN 2 * Scale ELSE 0)
        - (IF MatchesFinanceNoise(item.title) THEN 5 * Scale ELSE 0)

\* scoreItem with -99 for its sentinel
scoreItem_SmallSentinel(item, feedWeight, tNew, tNow) ==
  LET age == ageHours(item, tNew, tNow)
  IN  IF age > CutoffHours THEN (0 - 99) * Scale
      ELSE Decay[age] + feedWeight * (Scale \div 2) + titleQuality(item.title)
             + (IF MatchesBonus(item.title) THEN 2 * Scale ELSE 0)
             - (IF MatchesFinanceNoise(item.title) THEN 5 * Scale ELSE 0)

\* scoreItem with the old sizes of bonus and penalty: 2 and 2
scoreItem_PenaltyEqualsBonus(item, feedWeight, tNew, tNow) ==
  LET age == ageHours(item, tNew, tNow)
  IN  IF age > CutoffHours THEN Sentinel
      ELSE Decay[age] + feedWeight * (Scale \div 2) + titleQuality(item.title)
             + (IF MatchesBonus(item.title) THEN 2 * Scale ELSE 0)
             - (IF MatchesFinanceNoise(item.title) THEN 2 * Scale ELSE 0)

\* scoreItem with a recency that decays by the day, not by the hour
scoreItem_DailyRecency(item, feedWeight, tNew, tNow) ==
  LET age == ageHours(item, tNew, tNow)
  IN  IF age > CutoffHours THEN Sentinel
      ELSE Decay[24 * (age \div 24)] + feedWeight * (Scale \div 2)
             + titleQuality(item.title)
             + (IF MatchesBonus(item.title) THEN 2 * Scale ELSE 0)
             - (IF MatchesFinanceNoise(item.title) THEN 5 * Scale ELSE 0)

scoreItem(item, feedWeight, tNew, tNow) ==
  LET age == ageHours(item, tNew, tNow)
  IN  IF age > CutoffHours THEN Sentinel
      ELSE Decay[age] + feedWeight * (Scale \div 2) + titleQuality(item.title)
             + (IF MatchesBonus(item.title) THEN 2 * Scale ELSE 0)
             - (IF MatchesFinanceNoise(item.title) THEN 5 * Scale ELSE 0)

(***************************************************************************)
(* fetchFeed.  A feed entry, as the parser returns it, is a record with    *)
(* the fields title, link, isoDate and pubDate, each of which can be       *)
(* missing.  A time is a number of hours.                                  *)
(***************************************************************************)
\* item.title?.trim() || ''
TrimOrEmpty(field) == IF field.has THEN trim(field.s) ELSE <<>>

\* item.isoDate || item.pubDate || new Date().toISOString()
PublishedAtOf(entry, tNow) ==
  IF entry.isoDate.kind # "absent" THEN entry.isoDate
  ELSE IF entry.pubDate.kind # "absent" THEN entry.pubDate
  ELSE Time(tNow)

\* fetchFeed without its filter on title and url
fetchFeed_NoFilter(feed, entries, tNow) ==
  LET sliced == SubSeq(entries, 1, Min(Len(entries), MAX_ITEMS_PER_FEED))
      items  == [i \in 1..Len(sliced) |->
                   [source      |-> feed,
                    feedWeight  |-> FEEDS[feed],
                    title       |-> TrimOrEmpty(sliced[i].title),
                    url         |-> TrimOrEmpty(sliced[i].link),
                    publishedAt |-> PublishedAtOf(sliced[i], tNow)]]
  IN  SelectSeq(items, LAMBDA item : TRUE)

\* the body of the try block: slice, map, filter
fetchFeed(feed, entries, tNow) ==
  LET sliced == SubSeq(entries, 1, Min(Len(entries), MAX_ITEMS_PER_FEED))
      items  == [i \in 1..Len(sliced) |->
                   [source      |-> feed,
                    feedWeight  |-> FEEDS[feed],
                    title       |-> TrimOrEmpty(sliced[i].title),
                    url         |-> TrimOrEmpty(sliced[i].link),
                    publishedAt |-> PublishedAtOf(sliced[i], tNow)]]
  IN  SelectSeq(items, LAMBDA item : item.title # <<>> /\ item.url # <<>>)

(***************************************************************************)
(* Sorting: Array.prototype.sort with (a, b) => b.score - a.score is a     *)
(* stable sort by descending score.                                        *)
(***************************************************************************)
\* a sort that is not stable: x goes before the elements of its own score
RECURSIVE InsertByScore_Unstable(_, _)
InsertByScore_Unstable(s, x) ==
  IF s = <<>> THEN <<x>>
  ELSE IF s[1].score > x.score THEN <<s[1]>> \o InsertByScore_Unstable(Tail(s), x)
  ELSE <<x>> \o s

\* a sort with the comparison a.score - b.score
RECURSIVE InsertByScore_Ascending(_, _)
InsertByScore_Ascending(s, x) ==
  IF s = <<>> THEN <<x>>
  ELSE IF s[1].score <= x.score THEN <<s[1]>> \o InsertByScore_Ascending(Tail(s), x)
  ELSE <<x>> \o s

\* x goes behind every element whose score is at least its own
RECURSIVE InsertByScore(_, _)
InsertByScore(s, x) ==
  IF s = <<>> THEN <<x>>
  ELSE IF s[1].score >= x.score THEN <<s[1]>> \o InsertByScore(Tail(s), x)
  ELSE <<x>> \o s

RECURSIVE sortByScore(_)
sortByScore(items) ==
  IF items = <<>> THEN <<>>
  ELSE InsertByScore(sortByScore(SubSeq(items, 1, Len(items) - 1)), items[Len(items)])

(***************************************************************************)
(* dedupe.                                                                 *)
(***************************************************************************)
\* the loop, had it recorded the keys of the items it drops as well
RECURSIVE DedupeLoop_RecordDropped(_, _, _, _)
DedupeLoop_RecordDropped(items, byUrl, byTitle, out) ==
  IF items = <<>> THEN out
  ELSE LET item == items[1]
           uk   == urlKey(item.url)
           tk   == normalizeTitle(item.title)
       IN  IF uk = <<>> \/ tk = <<>>
             THEN DedupeLoop_RecordDropped(Tail(items), byUrl, byTitle, out)
           ELSE IF uk \in byUrl \/ tk \in byTitle
             THEN DedupeLoop_RecordDropped(Tail(items), byUrl \cup {uk},
                                           byTitle \cup {tk}, out)
           ELSE DedupeLoop_RecordDropped(Tail(items), byUrl \cup {uk},
                                         byTitle \cup {tk}, Append(out, item))

\* the for loop, with its two sets and the list it builds
RECURSIVE DedupeLoop(_, _, _, _)
DedupeLoop(items, byUrl, byTitle, out) ==
  IF items = <<>> THEN out
  ELSE LET item == items[1]
           uk   == urlKey(item.url)
           tk   == normalizeTitle(item.title)
       IN  IF uk = <<>> \/ tk = <<>> THEN DedupeLoop(Tail(items), byUrl, byTitle, out)
           ELSE IF uk \in byUrl \/ tk \in byTitle
             THEN DedupeLoop(Tail(items), byUrl, byTitle, out)
           ELSE DedupeLoop(Tail(items), byUrl \cup {uk}, byTitle \cup {tk},
                           Append(out, item))

dedupe(items) == DedupeLoop(items, {}, {}, <<>>)

(***************************************************************************)
(* formatDate: the day of a time, the day of the clock when it is no time. *)
(***************************************************************************)
formatDate(dateLike, tNew) ==
  IF dateLike.kind = "time" THEN dateLike.t \div 24 ELSE tNew \div 24

(***************************************************************************)
(* applySourceDiversity.                                                   *)
(***************************************************************************)
\* the loop with "n > MAX_PER_SOURCE" for its test
RECURSIVE DiversityLoop_CapOffByOne(_, _, _)
DiversityLoop_CapOffByOne(items, sourceCounts, out) ==
  IF items = <<>> THEN out
  ELSE LET item == items[1]
           n    == sourceCounts[item.source]
       IN  IF n > MAX_PER_SOURCE
             THEN DiversityLoop_CapOffByOne(Tail(items), sourceCounts, out)
           ELSE IF Len(out) + 1 >= TOP_N THEN Append(out, item)
           ELSE DiversityLoop_CapOffByOne(Tail(items),
                                          [sourceCounts EXCEPT ![item.source] = n + 1],
                                          Append(out, item))

\* the loop without its break
RECURSIVE DiversityLoop_NoBreak(_, _, _)
DiversityLoop_NoBreak(items, sourceCounts, out) ==
  IF items = <<>> THEN out
  ELSE LET item == items[1]
           n    == sourceCounts[item.source]
       IN  IF n >= MAX_PER_SOURCE
             THEN DiversityLoop_NoBreak(Tail(items), sourceCounts, out)
           ELSE DiversityLoop_NoBreak(Tail(items),
                                      [sourceCounts EXCEPT ![item.source] = n + 1],
                                      Append(out, item))

\* the loop with "out.length > TOP_N" for its break
RECURSIVE DiversityLoop_BreakLate(_, _, _)
DiversityLoop_BreakLate(items, sourceCounts, out) ==
  IF items = <<>> THEN out
  ELSE LET item == items[1]
           n    == sourceCounts[item.source]
       IN  IF n >= MAX_PER_SOURCE
             THEN DiversityLoop_BreakLate(Tail(items), sourceCounts, out)
           ELSE IF Len(out) + 1 > TOP_N THEN Append(out, item)
           ELSE DiversityLoop_BreakLate(Tail(items),
                                        [sourceCounts EXCEPT ![item.source] = n + 1],
                                        Append(out, item))

\* the loop with a break where it has "continue"
RECURSIVE DiversityLoop_BreakAtCap(_, _, _)
DiversityLoop_BreakAtCap(items, sourceCounts, out) ==
  IF items = <<>> THEN out
  ELSE LET item == items[1]
           n    == sourceCounts[item.source]
       IN  IF n >= MAX_PER_SOURCE THEN out
           ELSE IF Len(out) + 1 >= TOP_N THEN Append(out, item)
           ELSE DiversityLoop_BreakAtCap(Tail(items),
                                         [sourceCounts EXCEPT ![item.source] = n + 1],
                                         Append(out, item))

\* the for loop; sourceCounts maps every source to its count so far
RECURSIVE DiversityLoop(_, _, _)
DiversityLoop(items, sourceCounts, out) ==
  IF items = <<>> THEN out
  ELSE LET item == items[1]
           n    == sourceCounts[item.source]
       IN  IF n >= MAX_PER_SOURCE THEN DiversityLoop(Tail(items), sourceCounts, out)
           ELSE IF Len(out) + 1 >= TOP_N THEN Append(out, item)
           ELSE DiversityLoop(Tail(items),
                              [sourceCounts EXCEPT ![item.source] = n + 1],
                              Append(out, item))

applySourceDiversity(items) ==
  DiversityLoop(items, [f \in FeedIds |-> 0], <<>>)

(***************************************************************************)
(* The feeds' answers the model draws from.                                *)
(***************************************************************************)
\* the clock when the run starts: one hour before midnight of day 41
Now0 == 41 * 24 + 23

\* how many hours the clock can advance during one run
MaxTicks == 1

\* the feeds that can give the varied answer FeedAnswerB
RichFeeds == {5}

\* a title with a bonus keyword and no finance noise
BestTitle == <<"M","o","d","e","l"," ","s","a","f","e","t","y"," ","r","e","l","e","a","s","e"," ">>

TwoDigits(n) == <<DigitChars[(n \div 10) + 1], DigitChars[(n % 10) + 1]>>

StoryTitle(n) == <<"s","t","o","r","y"," ">> \o TwoDigits(n)

StoryUrl(n) == <<"h","t","t","p","s",":","/","/","n",".","i","o","/">> \o TwoDigits(n)

Entry(title, link, isoDate, pubDate) ==
  [title |-> title, link |-> link, isoDate |-> isoDate, pubDate |-> pubDate]

\* a fresh story of the feed's own, which scores as those of the other feeds
\* of equal weight do, and a second story: of an even feed a day old, of an
\* odd feed exactly at the cutoff and with the best title signals
FeedAnswerA(f) ==
  << Entry(Text(StoryTitle(2*f - 1)), Text(StoryUrl(2*f - 1)), Time(Now0 - 5), NODATE),
     IF f % 2 = 0
       THEN Entry(Text(StoryTitle(2*f)), Text(StoryUrl(2*f)), Time(Now0 - 30), NODATE)
       ELSE Entry(Text(BestTitle \o TwoDigits(2*f)), Text(StoryUrl(2*f)),
                  Time(Now0 - CutoffHours), NODATE) >>

\* a story past the cutoff with the best title signals, one story at the
\* cutoff, copies of the next feed's stories under another title suffix and
\* another query string, entries without title, link or date, a date that
\* does not parse
FeedAnswerB(f) ==
  << Entry(Text(BestTitle \o TwoDigits(20 + f)), Text(StoryUrl(20 + f)),
           Time(Now0 - 100), NODATE),
     Entry(Text(<<" ">> \o StoryTitle(2*f + 1) \o <<" ","-"," ","S","i","t","e">>), Text(StoryUrl(30 + f)),
           Time(Now0 - 2), NODATE),
     Entry(Text(StoryTitle(40 + f)), Text(StoryUrl(2*f + 2) \o <<"?","u","t","m","=","1">>),
           NODATE, Time(Now0 - 4)),
     Entry(ABSENT, Text(StoryUrl(50 + f)), Time(Now0 - 1), NODATE),
     Entry(Text(StoryTitle(60 + f)), Text(<<" ", "\n">>), Time(Now0 - 1), NODATE),
     Entry(Text(<<"b","u","y"," ">> \o TwoDigits(70 + f)), Text(StoryUrl(70 + f)),
           Time(Now0 - 72), NODATE),
     Entry(Text(StoryTitle(80 + f)), Text(StoryUrl(80 + f)), NODATE, INVALID),
     Entry(Text(StoryTitle(90 + f)), Text(StoryUrl(90 + f)), NODATE, NODATE) >>

FeedAnswers(f) ==
  {FeedAnswerA(f)} \cup (IF f \in RichFeeds THEN {FeedAnswerB(f)} ELSE {})

(***************************************************************************)
(* The state of one run of main.                                           *)
(***************************************************************************)
VARIABLES
  pc,        \* where main is: "fetching", "writing", "exited"
  clock,     \* the wall clock, in hours
  settled,   \* per feed: PENDING, or the items its fetchFeed resolved to
  failed,    \* the feeds whose fetchFeed logged "Feed failed"
  all,       \* the flattened candidates, each with its position as ref
  reads,     \* per candidate: the clock readings <<tNew, tNow>> of its scoring
  sorted,    \* the scored, filtered and sorted candidates
  scored,    \* dedupe's result
  ranked,    \* applySourceDiversity's result
  output,    \* the records written to public/news.json
  newsJson,  \* the content of public/news.json
  exitCode,  \* the exit status of the process, NONE while it runs
  tweetHistory,    \* the content of .tweet_history.json
  lastTweetDraft,  \* the content of .last_tweet_draft
  lastTweetUrl,    \* the content of .last_tweet_url
  lastTweet        \* the tweet that X accepted last, and the parity of their number

\* what agent-briefing.mjs and the approve script keep between their runs
tweetFiles == <<tweetHistory, lastTweetDraft, lastTweetUrl, lastTweet>>

vars == <<pc, clock, settled, failed, all, reads, sorted, scored, ranked, output, newsJson, exitCode,
          tweetHistory, lastTweetDraft, lastTweetUrl, lastTweet>>

PENDING == "pending"

NONE == "none"

\* public/news.json: not written by this run, or written with these records
NOFILE == [written |-> FALSE, items |-> <<>>]

Written(items) == [written |-> TRUE, items |-> items]

\* the text of a tweet: none, the draft that the briefing made for the item
\* with this url, or the words of an "edit" command
NoText == [kind |-> "none", url |-> 0]

\* before the first briefing: no draft, no url, no tweet
NoTweetFiles ==
  /\ tweetHistory = NOFILE
  /\ lastTweetDraft = NOFILE
  /\ lastTweetUrl = NOFILE
  /\ lastTweet = [n |-> 0, text |-> NoText]

\* the results concatenated from the last feed to the first
RECURSIVE Flatten_Backward(_, _)
Flatten_Backward(results, f) ==
  IF f > Len(FEEDS) THEN <<>> ELSE Flatten_Backward(results, f + 1) \o results[f]

\* (await Promise.all(FEEDS.map(fetchFeed))).flat(), in the order of FEEDS
RECURSIVE Flatten(_, _)
Flatten(results, f) ==
  IF f > Len(FEEDS) THEN <<>> ELSE results[f] \o Flatten(results, f + 1)

\* a candidate is an object of its own: ref, its position in the flattened
\* list, stands for the object's identity
WithRefs(items) == [i \in 1..Len(items) |-> items[i] @@ [ref |-> i]]

Init ==
  /\ pc = "fetching"
  /\ clock = Now0
  /\ settled = [f \in FeedIds |-> PENDING]
  /\ failed = {}
  /\ all = <<>>
  /\ reads = <<>>
  /\ sorted = <<>>
  /\ scored = <<>>
  /\ ranked = <<>>
  /\ output = <<>>
  /\ newsJson = NOFILE
  /\ exitCode = NONE
  /\ NoTweetFiles

\* time passes while the fetches are under way
Tick ==
  /\ pc = "fetching"
  /\ clock < Now0 + MaxTicks
  /\ clock' = clock + 1
  /\ UNCHANGED <<pc, settled, failed, all, reads, sorted, scored, ranked, output, newsJson, exitCode, tweetFiles>>

\* parser.parseURL of feed f resolves and fetchFeed returns its items
FetchFeedOk(f) ==
  /\ pc = "fetching"
  /\ settled[f] = PENDING
  /\ \E entries \in FeedAnswers(f) :
       settled' = [settled EXCEPT ![f] = fetchFeed(f, entries, clock)]
  /\ UNCHANGED <<failed, pc, clock, all, reads, sorted, scored, ranked, output, newsJson, exitCode, tweetFiles>>

\* fetchFeed, had its catch block thrown the error on: Promise.all rejects,
\* main rejects and main().catch exits with 1
FetchFeedFail_Rethrow(f) ==
  /\ pc = "fetching"
  /\ settled[f] = PENDING
  /\ failed' = failed \cup {f}
  /\ exitCode' = 1
  /\ pc' = "exited"
  /\ UNCHANGED <<clock, settled, all, reads, sorted, scored, ranked, output, newsJson, tweetFiles>>

\* parser.parseURL of feed f throws or times out: the catch block logs
\* "Feed failed" and returns []
FetchFeedFail(f) ==
  /\ pc = "fetching"
  /\ settled[f] = PENDING
  /\ settled' = [settled EXCEPT ![f] = <<>>]
  /\ failed' = failed \cup {f}
  /\ UNCHANGED <<pc, clock, all, reads, sorted, scored, ranked, output, newsJson, exitCode, tweetFiles>>

\* The clock reads of main between Promise.all and fs.writeFile: per
\* candidate i the fallback "new Date()" of scoreItem (slot 2i-1, read only
\* for a date that does not parse) and its "Date.now()" (slot 2i); per output
\* record i formatDate for id (slot 2i-1) and formatDate for date (slot 2i),
\* which read the clock only for a date that does not parse.  This part of
\* main runs without a pause and crosses at most one hour boundary: the tick,
\* if there is one, falls right before the read of slot p (0: no tick).
ScoreTickSlots(a) ==
  {0} \cup (IF clock < Now0 + MaxTicks
              THEN { 2*i : i \in 1..Len(a) }
                     \cup { 2*i - 1 : i \in { j \in 1..Len(a) : a[j].publishedAt.kind # "time" } }
              ELSE {})

FormatTickSlots(r, p) ==
  {0} \cup (IF clock < Now0 + MaxTicks /\ p = 0
              THEN UNION { {2*i - 1, 2*i} :
                           i \in { j \in 1..Len(r) : r[j].publishedAt.kind # "time" } }
              ELSE {})

ReadAt(p, k) == IF p # 0 /\ k >= p THEN clock + 1 ELSE clock

\* output = ranked.map(...)
OutputOf(r, p, q) ==
  [i \in 1..Len(r) |->
     [id     |-> <<formatDate(r[i].publishedAt,
                              IF p # 0 THEN clock + 1 ELSE ReadAt(q, 2*i - 1)), i>>,
      title  |-> r[i].title,
      url    |-> r[i].url,
      date   |-> formatDate(r[i].publishedAt,
                            IF p # 0 THEN clock + 1 ELSE ReadAt(q, 2*i)),
      source |-> r[i].source]]

\* all.map(score).filter(score > -100).sort(by score)
ScoreFilterSort(a, p) ==
  LET mapped == [i \in 1..Len(a) |->
        a[i] @@ [score |-> scoreItem(a[i], a[i].feedWeight,
                                     ReadAt(p, 2*i - 1), ReadAt(p, 2*i))]]
  IN  sortByScore(SelectSeq(mapped, LAMBDA item : item.score > FilterThreshold))

\* main from the end of Promise.all to the call of fs.writeFile
Curate ==
  /\ pc = "fetching"
  /\ \A f \in FeedIds : settled[f] # PENDING
  /\ LET a == WithRefs(Flatten(settled, 1))
     IN  \E p \in ScoreTickSlots(a) :
           /\ all' = a
           /\ reads' = [i \in 1..Len(a) |-> <<ReadAt(p, 2*i - 1), ReadAt(p, 2*i)>>]
           /\ sorted' = ScoreFilterSort(a, p)
           /\ scored' = dedupe(sorted')
           /\ ranked' = applySourceDiversity(scored')
           /\ \E q \in FormatTickSlots(ranked', p) :
                /\ output' = OutputOf(ranked', p, q)
                /\ clock' = IF p # 0 \/ q # 0 THEN clock + 1 ELSE clock
  /\ pc' = "writing"
  /\ UNCHANGED <<settled, failed, newsJson, exitCode, tweetFiles>>

\* main, had it exited with 1 for every list shorter than TOP_N
WriteFileOk_FailsBelowTopN ==
  /\ pc = "writing"
  /\ newsJson' = Written(output)
  /\ exitCode' = IF Len(output) < TOP_N THEN 1 ELSE 0
  /\ pc' = "exited"
  /\ UNCHANGED <<clock, settled, failed, all, reads, sorted, scored, ranked, output, tweetFiles>>

\* fs.writeFile resolves; main logs and exits with 1 for an empty list
WriteFileOk ==
  /\ pc = "writing"
  /\ newsJson' = Written(output)
  /\ exitCode' = IF Len(output) = 0 THEN 1 ELSE 0
  /\ pc' = "exited"
  /\ UNCHANGED <<clock, settled, failed, all, reads, sorted, scored, ranked, output, tweetFiles>>

\* fs.writeFile rejects: main().catch logs and exits with 1
WriteFileFail ==
  /\ pc = "writing"
  /\ exitCode' = 1
  /\ pc' = "exited"
  /\ UNCHANGED <<clock, settled, failed, all, reads, sorted, scored, ranked, output, newsJson, tweetFiles>>

Next ==
  \/ Tick
  \/ \E f \in FeedIds : FetchFeedOk(f)
  \/ \E f \in FeedIds : FetchFeedFail(f)
  \/ Curate
  \/ WriteFileOk
  \/ WriteFileFail

Spec == Init /\ [][Next]_vars

(***************************************************************************)
(* dedupe on its own: its input is drawn from the lists of at most         *)
(* MaxDedupeLen items of DedupeItems, in descending score order as main    *)
(* passes them.                                                            *)
(***************************************************************************)
MaxDedupeLen == 3

TitleHyphen == <<"M","o","d","e","l"," ","X"," ","L","a","u","n","c","h","e","s"," ","-"," ","T","e","c","h","S","i","t","e">>

TitleEmDash == <<"M","o","d","e","l"," ","X"," ","L","a","u","n","c","h","e","s"," ","EMDASH"," ","O","t","h","e","r","S","i","t","e">>

TitlePipe == <<"M","o","d","e","l"," ","X"," ","L","a","u","n","c","h","e","s"," ","|"," ","O","t","h","e","r","S","i","t","e">>

UrlA == <<"h","t","t","p","s",":","/","/","a",".","i","o","/","p">>

UrlB == <<"h","t","t","p","s",":","/","/","b",".","i","o","/","q">>

UrlC == <<"h","t","t","p","s",":","/","/","c",".","i","o","/","r">>

\* <<title, url>>: the three spellings of one headline, links that differ in
\* the query string only, a query string that holds a line break, a title and
\* a link whose keys are empty, a second copy of a title, links that differ
\* from UrlA in the scheme, in a trailing slash, in a fragment before a '?'
DedupeItems ==
  << <<TitleHyphen, UrlA>>,
     <<TitleEmDash, UrlB>>,
     <<TitlePipe, UrlC>>,
     <<<<"O","t","h","e","r"," ","N","e","w","s">>, UrlA \o <<"?","u","t","m","=","1">>>>,
     <<<<"T","h","i","r","d"," ","S","t","o","r","y">>, UrlA \o <<"?","\n","x">>>>,
     <<<<"F","o","u","r","t","h"," ","S","t","o","r","y">>, UrlA \o <<"?","\n","y">>>>,
     <<<<"-"," ","S","i","t","e">>, <<"h","t","t","p","s",":","/","/","d",".","i","o","/","s">>>>,
     <<<<"F","i","f","t","h"," ","S","t","o","r","y">>, <<"?","q","=","1">>>>,
     <<<<"O","t","h","e","r"," ","N","e","w","s">>, <<"h","t","t","p","s",":","/","/","e",".","i","o","/","t">>>>,
     <<<<"S","i","x","t","h"," ","S","t","o","r","y">>, <<"h","t","t","p",":","/","/","a",".","i","o","/","p">>>>,
     <<<<"S","e","v","e","n","t","h"," ","S","t","o","r","y">>, UrlA \o <<"/">>>>,
     <<<<"E","i","g","h","t","h"," ","S","t","o","r","y">>, UrlA \o <<"#","f","?","x","=","1">>>> >>

\* the list of the items chosen by c, scored in descending order
DedupeInput(c) ==
  [i \in 1..Len(c) |->
     [source      |-> ((c[i] - 1) % Len(FEEDS)) + 1,
      feedWeight  |-> FEEDS[((c[i] - 1) % Len(FEEDS)) + 1],
      title       |-> DedupeItems[c[i]][1],
      url         |-> DedupeItems[c[i]][2],
      publishedAt |-> Time(Now0),
      ref         |-> i,
      score       |-> 0 - i]]

InitDedupe ==
  /\ pc = "dedupe"
  /\ \E k \in 0..MaxDedupeLen :
       \E c \in [1..k -> 1..Len(DedupeItems)] : sorted = DedupeInput(c)
  /\ clock = Now0
  /\ settled = [f \in FeedIds |-> <<>>]
  /\ failed = {}
  /\ all = <<>>
  /\ reads = <<>>
  /\ scored = <<>>
  /\ ranked = <<>>
  /\ output = <<>>
  /\ newsJson = NOFILE
  /\ exitCode = NONE
  /\ NoTweetFiles

CallDedupe ==
  /\ pc = "dedupe"
  /\ scored' = dedupe(sorted)
  /\ pc' = "deduped"
  /\ UNCHANGED <<clock, settled, failed, all, reads, sorted, ranked, output, newsJson, exitCode, tweetFiles>>

SpecDedupe == InitDedupe /\ [][CallDedupe]_vars

(***************************************************************************)
(* normalizeTitle as dedupe applies it: the input is one item whose title  *)
(* is any string of at most MaxTitleLen characters of TitleChars.          *)
(***************************************************************************)
MaxTitleLen == 4

\* a lower case letter, an upper case letter, a digit, a space, a line
\* feed, the separators, another punctuation mark
TitleChars == {"a", "B", "1", " ", "\n", "-", "|", "BULLET", "MIDDOT", "!"}

\* the one-item list that main could pass to dedupe for the title t
NormalizeInput(t) ==
  <<[source      |-> 1,
     feedWeight  |-> FEEDS[1],
     title       |-> t,
     url         |-> UrlA,
     publishedAt |-> Time(Now0),
     ref         |-> 1,
     score       |-> 0]>>

InitNormalize ==
  /\ pc = "dedupe"
  /\ \E k \in 0..MaxTitleLen :
       \E t \in [1..k -> TitleChars] : sorted = NormalizeInput(t)
  /\ clock = Now0
  /\ settled = [f \in FeedIds |-> <<>>]
  /\ failed = {}
  /\ all = <<>>
  /\ reads = <<>>
  /\ scored = <<>>
  /\ ranked = <<>>
  /\ output = <<>>
  /\ newsJson = NOFILE
  /\ exitCode = NONE
  /\ NoTweetFiles

SpecNormalize == InitNormalize /\ [][CallDedupe]_vars

(***************************************************************************)
(* applySourceDiversity on its own: its input is drawn from every list of  *)
(* at most MaxShortLen items over the nine sources, and from longer lists  *)
(* in which the first NumFreeSources sources have any number of items up   *)
(* to MaxCountPerSource, the other sources one common number, arranged     *)
(* source by source or round robin, forward or backward.                   *)
(***************************************************************************)
MaxShortLen == 3

NumFreeSources == 2

MaxCountPerSource == 3

\* the deduplicated, score-ordered list whose i-th item is of source src[i]
DiversityInput(src) ==
  [i \in 1..Len(src) |->
     [source      |-> src[i],
      feedWeight  |-> FEEDS[src[i]],
      title       |-> StoryTitle(i),
      url         |-> StoryUrl(i),
      publishedAt |-> Time(Now0),
      ref         |-> i,
      score       |-> 0 - i]]

RECURSIVE Grouped(_, _)
Grouped(cnt, f) ==
  IF f > Len(FEEDS) THEN <<>>
  ELSE [k \in 1..cnt[f] |-> f] \o Grouped(cnt, f + 1)

RECURSIVE RoundRobin(_, _, _)
RoundRobin(cnt, k, f) ==
  IF k > MaxCountPerSource THEN <<>>
  ELSE IF f > Len(FEEDS) THEN RoundRobin(cnt, k + 1, 1)
  ELSE (IF cnt[f] >= k THEN <<f>> ELSE <<>>) \o RoundRobin(cnt, k, f + 1)

Reverse(s) == [i \in 1..Len(s) |-> s[Len(s) + 1 - i]]

SourceCounts ==
  { [f \in FeedIds |-> IF f <= NumFreeSources THEN free[f] ELSE rest] :
      free \in [1..NumFreeSources -> 0..MaxCountPerSource],
      rest \in 0..MaxCountPerSource }

DiversitySources ==
  UNION { [1..k -> FeedIds] : k \in 0..MaxShortLen }
    \cup UNION { { Grouped(cnt, 1), Reverse(Grouped(cnt, 1)),
                   RoundRobin(cnt, 1, 1), Reverse(RoundRobin(cnt, 1, 1)) } :
                 cnt \in SourceCounts }

InitDiversity ==
  /\ pc = "diversity"
  /\ \E src \in DiversitySources : scored = DiversityInput(src)
  /\ clock = Now0
  /\ settled = [f \in FeedIds |-> <<>>]
  /\ failed = {}
  /\ all = <<>>
  /\ reads = <<>>
  /\ sorted = <<>>
  /\ ranked = <<>>
  /\ output = <<>>
  /\ newsJson = NOFILE
  /\ exitCode = NONE
  /\ NoTweetFiles

CallDiversity ==
  /\ pc = "diversity"
  /\ ranked' = applySourceDiversity(scored)
  /\ pc' = "diversified"
  /\ UNCHANGED <<clock, settled, failed, all, reads, sorted, scored, output, newsJson, exitCode, tweetFiles>>

SpecDiversity == InitDiversity /\ [][CallDiversity]_vars

(***************************************************************************)
(* scoreItem on its own, as main applies it: the candidates are scored one *)
(* after the other, filtered and sorted.  The first candidate is any       *)
(* combination of a title, a feed weight and a date; each further          *)
(* candidate is the first one or differs from it in one of the three.      *)
(***************************************************************************)
\* how many candidates are scored in one call
NumScored == 2

\* titles with a finance word and a bonus word, with neither, with one of
\* the two, with words that hold a keyword without being it, and the empty
\* title
ScoreTitles ==
  { <<"B","u","y"," ","m","o","d","e","l">>,
    <<"n","e","w"," ","s","t","o","r","y">>,
    <<"b","u","y"," ","s","t","u","f","f">>,
    <<"b","i","g"," ","m","o","d","e","l">>,
    <<"S","t","o","c","k","p","i","l","e"," ","r","e","m","o","d","e","l">>,
    <<>> }

\* one feed of every weight that FEEDS has
ScoreFeeds == { f \in FeedIds : \A g \in 1..(f - 1) : FEEDS[g] # FEEDS[f] }

\* publication this many hours before the start of the run (after it, when
\* negative)
ScoreAges == {0, 1, CutoffHours, CutoffHours + 1, 0 - 3}

ScoreDates == { Time(Now0 - a) : a \in ScoreAges } \cup {INVALID, NODATE}

ScoreItems ==
  { [source |-> f, feedWeight |-> FEEDS[f], title |-> t, url |-> StoryUrl(1),
     publishedAt |-> d] : f \in ScoreFeeds, t \in ScoreTitles, d \in ScoreDates }

Variants(x) ==
  {x} \cup { [x EXCEPT !.title = t] : t \in ScoreTitles }
      \cup { [x EXCEPT !.publishedAt = d] : d \in ScoreDates }
      \cup { [x EXCEPT !.source = f, !.feedWeight = FEEDS[f]] : f \in ScoreFeeds }

InitScore ==
  /\ pc = "scoring"
  /\ \E x \in ScoreItems :
       \E rest \in [1..(NumScored - 1) -> Variants(x)] :
         all = WithRefs(<<x>> \o rest)
  /\ clock = Now0
  /\ settled = [f \in FeedIds |-> <<>>]
  /\ failed = {}
  /\ reads = <<>>
  /\ sorted = <<>>
  /\ scored = <<>>
  /\ ranked = <<>>
  /\ output = <<>>
  /\ newsJson = NOFILE
  /\ exitCode = NONE
  /\ NoTweetFiles

\* all.map(score).filter(score > -100).sort(by score); the clock may advance
\* once, right before one of the clock reads
CallScoreItem ==
  /\ pc = "scoring"
  /\ \E p \in ScoreTickSlots(all) :
       /\ reads' = [i \in 1..Len(all) |-> <<ReadAt(p, 2*i - 1), ReadAt(p, 2*i)>>]
       /\ sorted' = ScoreFilterSort(all, p)
       /\ clock' = IF p # 0 THEN clock + 1 ELSE clock
  /\ pc' = "sorted"
  /\ UNCHANGED <<settled, failed, all, scored, ranked, output, newsJson, exitCode, tweetFiles>>

SpecScore == InitScore /\ [][CallScoreItem]_vars

(***************************************************************************)
(* update-youtube-openclaw.mjs.  Its definitions carry the suffix YT where *)
(* the name is that of a definition of update-news.mjs.                    *)
(***************************************************************************)
\* the weight column of FEEDS
FEEDS_YT == <<4, 3, 3>>

TOP_N_YT == 10

\* re.test(s) for a pattern that is a plain string, ignoring case
Contains(s, p) == \E i \in 1..(Len(s) - Len(p) + 1) : MatchesAt(s, p, i)

\* the alternatives of /use case|workflow|automation|tutorial|guide/i
RelevanceWords ==
  { <<"u","s","e"," ","c","a","s","e">>,
    <<"w","o","r","k","f","l","o","w">>,
    <<"a","u","t","o","m","a","t","i","o","n">>,
    <<"t","u","t","o","r","i","a","l">>,
    <<"g","u","i","d","e">> }

\* new Date(item.isoDate || item.pubDate || Date.now()): the objects that
\* fetchFeed builds have a publishedAt and neither an isoDate nor a pubDate,
\* so for them this is the clock reading tNew
PublishedYT(item, tNew) ==
  IF "isoDate" \in DOMAIN item /\ item.isoDate.kind = "time" THEN item.isoDate.t
  ELSE IF "pubDate" \in DOMAIN item /\ item.pubDate.kind = "time" THEN item.pubDate.t
  ELSE tNew

\* feedWeight * 2 + recency * 3 + relevance, times Scale
scoreItemYT(item, feedWeight, tNew, tNow) ==
  LET age == Max(0, tNow - PublishedYT(item, tNew))
  IN  feedWeight * 2 * Scale
        + (Max(0, 72 - age) * 3 * Scale) \div 72
        + (IF Contains(item.title, <<"o","p","e","n","c","l","a","w">>) THEN 12 * (Scale \div 10) ELSE 0)
        + (IF \E p \in RelevanceWords : Contains(item.title, p)
             THEN 8 * (Scale \div 10) ELSE 0)

\* the body of the try block: slice, map, filter
fetchFeedYT(feed, entries, tNow) ==
  LET sliced == SubSeq(entries, 1, Min(Len(entries), MAX_ITEMS_PER_FEED))
      items  == [i \in 1..Len(sliced) |->
                   [source      |-> feed,
                    feedWeight  |-> FEEDS_YT[feed],
                    title       |-> TrimOrEmpty(sliced[i].title),
                    url         |-> TrimOrEmpty(sliced[i].link),
                    publishedAt |-> PublishedAtOf(sliced[i], tNow)]]
  IN  SelectSeq(items, LAMBDA item : item.title # <<>> /\ item.url # <<>>)

\* the key of update-news.mjs: cut at the first '?' with no line terminator
\* after it
urlKeyYT_CutAtQuestionMark(url) == urlKey(url)

\* item.url.replace(/&.*$/, ''): cut at the first '&' with no line
\* terminator after it
urlKeyYT(url) ==
  LET amps == { j \in 1..Len(url) : url[j] = "&" /\ DotStarToEnd(url, j) }
  IN  IF amps = {} THEN url
      ELSE SubSeq(url, 1, (CHOOSE x \in amps : \A y \in amps : x <= y) - 1)

\* the for loop of dedupe
RECURSIVE DedupeLoopYT(_, _, _, _)
DedupeLoopYT(items, byUrl, byTitle, out) ==
  IF items = <<>> THEN out
  ELSE LET item == items[1]
           uk   == urlKeyYT(item.url)
           tk   == normalizeTitle(item.title)
       IN  IF uk = <<>> \/ tk = <<>> THEN DedupeLoopYT(Tail(items), byUrl, byTitle, out)
           ELSE IF uk \in byUrl \/ tk \in byTitle
             THEN DedupeLoopYT(Tail(items), byUrl, byTitle, out)
           ELSE DedupeLoopYT(Tail(items), byUrl \cup {uk}, byTitle \cup {tk},
                             Append(out, item))

dedupeYT(items) == DedupeLoopYT(items, {}, {}, <<>>)

\* how many entries the three feeds give in all: the first feed gives the
\* first two, the second feed the third, the third feed the others
MaxEntriesYT == 3

WatchUrl == <<"h","t","t","p","s",":","/","/","y",".","t","/","w","a","t","c","h">>

\* two entries that differ in the date only, links that differ in the query
\* string, links that differ behind the first '&' (once with a line feed
\* there), an entry older than 72 hours, an entry with a pubDate only and
\* one with no date
EntriesYT ==
  << Entry(Text(<<"O","p","e","n","C","l","a","w"," ","t","u","t","o","r","i","a","l">>), Text(WatchUrl \o <<"?","v","=","a">>), Time(Now0 - 5), NODATE),
     Entry(Text(<<"O","p","e","n","C","l","a","w"," ","t","u","t","o","r","i","a","l">>), Text(WatchUrl \o <<"?","v","=","a">>), Time(Now0 - 30), NODATE),
     Entry(Text(<<"O","t","h","e","r"," ","v","i","d","e","o">>), Text(WatchUrl \o <<"?","v","=","b">>), Time(Now0 - 5), NODATE),
     Entry(Text(<<"T","h","i","r","d"," ","v","i","d","e","o">>), Text(WatchUrl \o <<"?","v","=","a","&","t","=","1">>), Time(Now0 - 6), NODATE),
     Entry(Text(<<"F","o","u","r","t","h"," ","c","l","i","p">>), Text(WatchUrl \o <<"?","v","=","a","&","\n","t","=","2">>), Time(Now0 - 7), NODATE),
     Entry(Text(<<"O","l","d"," ","w","o","r","k","f","l","o","w"," ","g","u","i","d","e">>), Text(WatchUrl \o <<"?","v","=","c">>), Time(Now0 - 100), NODATE),
     Entry(Text(<<"D","a","t","e","d"," ","f","e","e","d">>), Text(WatchUrl \o <<"?","v","=","d">>), NODATE, Time(Now0 - 71)),
     Entry(Text(<<"U","n","d","a","t","e","d"," ","c","l","i","p">>), Text(WatchUrl \o <<"?","v","=","e">>), NODATE, NODATE) >>

FeedOfEntryYT(i) == IF i <= 2 THEN 1 ELSE Min(i - 1, Len(FEEDS_YT))

\* (await Promise.all(FEEDS.map(fetchFeed))).flat() for the entries chosen by c
CandidatesYT(c) ==
  LET entriesOf(f) == SelectSeq([i \in 1..Len(c) |-> [at |-> i, e |-> EntriesYT[c[i]]]],
                                LAMBDA x : FeedOfEntryYT(x.at) = f)
      answer(f) == [i \in 1..Len(entriesOf(f)) |-> entriesOf(f)[i].e]
  IN  WithRefs(fetchFeedYT(1, answer(1), Now0) \o fetchFeedYT(2, answer(2), Now0)
                 \o fetchFeedYT(3, answer(3), Now0))

\* the state when Promise.all has resolved
InitYoutube ==
  /\ pc = "fetched"
  /\ \E k \in 0..MaxEntriesYT :
       \E c \in [1..k -> 1..Len(EntriesYT)] : all = CandidatesYT(c)
  /\ clock = Now0
  /\ settled = [f \in FeedIds |-> <<>>]
  /\ failed = {}
  /\ reads = <<>>
  /\ sorted = <<>>
  /\ scored = <<>>
  /\ ranked = <<>>
  /\ output = <<>>
  /\ newsJson = NOFILE
  /\ exitCode = NONE
  /\ NoTweetFiles

\* every scoreItem call reads the clock twice: slots 2i-1 and 2i of item i
TickSlotsYT(a) ==
  {0} \cup (IF clock < Now0 + MaxTicks THEN 1..(2 * Len(a)) ELSE {})

\* all.map(score).sort(by score)
ScoreSortYT(a, p) ==
  sortByScore([i \in 1..Len(a) |->
     a[i] @@ [score |-> scoreItemYT(a[i], a[i].feedWeight,
                                    ReadAt(p, 2*i - 1), ReadAt(p, 2*i))]])

\* output = ranked.map(...), with source: 'YouTube'
OutputOfYT(r, p, q) ==
  [i \in 1..Len(r) |-> [OutputOf(r, p, q)[i] EXCEPT !.source = "YouTube"]]

\* main from the end of Promise.all to the call of fs.writeFile; scored is
\* what dedupe returns, ranked its first TOP_N items
CurateYT ==
  /\ pc = "fetched"
  /\ \E p \in TickSlotsYT(all) :
       /\ reads' = [i \in 1..Len(all) |-> <<ReadAt(p, 2*i - 1), ReadAt(p, 2*i)>>]
       /\ sorted' = ScoreSortYT(all, p)
       /\ scored' = dedupeYT(sorted')
       /\ ranked' = SubSeq(scored', 1, Min(Len(scored'), TOP_N_YT))
       /\ \E q \in FormatTickSlots(ranked', p) :
            /\ output' = OutputOfYT(ranked', p, q)
            /\ clock' = IF p # 0 \/ q # 0 THEN clock + 1 ELSE clock
  /\ pc' = "writing"
  /\ UNCHANGED <<settled, failed, all, newsJson, exitCode, tweetFiles>>

SpecYoutube == InitYoutube /\ [][CurateYT \/ WriteFileOk \/ WriteFileFail]_vars

(***************************************************************************)
(* agent-briefing.mjs: the briefing run and the approve run.  The runs are *)
(* sequential, each one action; pc names the line where the last run       *)
(* ended.                                                                  *)
(***************************************************************************)
\* the length that history.shift() keeps the history at
HISTORY_MAX == 50

\* the urls that the feeds ever publish, numbered in the order of publishing
NumUrls == 52

\* how many records update:news writes to news.json
NewsLen == 3

NextUrl(u) == (u % NumUrls) + 1

\* the records of news.json when the top story is the one with url c
NewsFrom(c) == [i \in 1..NewsLen |-> [url |-> ((c + i - 2) % NumUrls) + 1]]

\* history.includes(url)
Includes(history, url) == \E i \in 1..Len(history) : history[i] = url

\* JSON.parse(await fs.readFile('.tweet_history.json')), [] when that throws
HistoryOf(file) == IF file.written THEN file.items ELSE <<>>

\* newsData.filter(item => !tweetHistory.includes(item.url))
freshNews(newsData, history) ==
  SelectSeq(newsData, LAMBDA item : ~ Includes(history, item.url))

\* tweetText of the briefing: hook, title, summary, the url of topItem, tags
DraftFor(topItem) == [kind |-> "draft", url |-> topItem.url]

\* args.slice(1).join(' ') of "edit some words"
EditText == [kind |-> "edit", url |-> 0]

\* the top story of the next news.json: the one of the last update, or the
\* next one once the last one has been tweeted
TopStories ==
  IF output = <<>> THEN {1}
  ELSE {output[1].url}
         \cup (IF Includes(HistoryOf(tweetHistory), output[1].url)
                 THEN {NextUrl(output[1].url)} ELSE {})

pipelineVars == <<clock, settled, failed, all, reads, sorted, scored, ranked>>

InitBriefing ==
  /\ pc = "idle"
  /\ clock = Now0
  /\ settled = [f \in FeedIds |-> <<>>]
  /\ failed = {}
  /\ all = <<>>
  /\ reads = <<>>
  /\ sorted = <<>>
  /\ scored = <<>>
  /\ ranked = <<>>
  /\ output = <<>>
  /\ newsJson = NOFILE
  /\ exitCode = NONE
  /\ tweetHistory \in {NOFILE, Written(<<>>)}
  /\ lastTweetDraft = NOFILE
  /\ lastTweetUrl = NOFILE
  /\ lastTweet = [n |-> 0, text |-> NoText]

\* npm run update:news ends with status 0: it has written a news.json that
\* is not empty
UpdateNewsOk(c) ==
  /\ output' = NewsFrom(c)
  /\ newsJson' = Written(output')

\* update:news ends with another status, having written no news.json or an
\* empty one: exit at line 41
BriefingUpdateFails ==
  /\ newsJson' \in {newsJson, Written(<<>>)}
  /\ pc' = "briefing:41"
  /\ exitCode' = 1
  /\ UNCHANGED <<pipelineVars, output, tweetFiles>>

\* news.json cannot be read or parsed: exit at line 50
BriefingReadFails ==
  /\ \E c \in TopStories : UpdateNewsOk(c)
  /\ pc' = "briefing:50"
  /\ exitCode' = 1
  /\ UNCHANGED <<pipelineVars, tweetFiles>>

\* every item of news.json is in the history: return at line 66
BriefingNoFresh ==
  /\ \E c \in TopStories :
       /\ UpdateNewsOk(c)
       /\ freshNews(NewsFrom(c), HistoryOf(tweetHistory)) = <<>>
  /\ pc' = "briefing:66"
  /\ exitCode' = 0
  /\ UNCHANGED <<pipelineVars, tweetFiles>>

\* the draft for the first fresh item and its url are saved, lines 117-118
BriefingDraft ==
  /\ \E c \in TopStories :
       LET fresh == freshNews(NewsFrom(c), HistoryOf(tweetHistory))
       IN  /\ UpdateNewsOk(c)
           /\ fresh # <<>>
           /\ lastTweetDraft' = Written(DraftFor(fresh[1]))
           /\ lastTweetUrl' = Written(fresh[1].url)
  /\ pc' = "briefing:123"
  /\ exitCode' = 0
  /\ UNCHANGED <<pipelineVars, tweetHistory, lastTweet>>

\* fs.writeFile throws at line 117, or at line 118 when the draft is saved:
\* main rejects, the catch logs the error and the process ends with status 0
BriefingWriteFails ==
  /\ \E c \in TopStories :
       LET fresh == freshNews(NewsFrom(c), HistoryOf(tweetHistory))
       IN  /\ UpdateNewsOk(c)
           /\ fresh # <<>>
           /\ lastTweetDraft' \in {lastTweetDraft, Written(DraftFor(fresh[1]))}
  /\ pc' = "briefing:125"
  /\ exitCode' = 0
  /\ UNCHANGED <<pipelineVars, tweetHistory, lastTweetUrl, lastTweet>>

\* the text that an approve run tweets: the saved draft for "approve", the
\* words of the command for "edit"
TweetTexts ==
  {EditText} \cup (IF lastTweetDraft.written THEN {lastTweetDraft.items} ELSE {})

\* "approve" with no .last_tweet_draft: exit at line 148
ApproveNoDraft ==
  /\ ~ lastTweetDraft.written
  /\ pc' = "approve:148"
  /\ exitCode' = 1
  /\ UNCHANGED <<pipelineVars, output, newsJson, tweetFiles>>

\* "edit" with no words: exit at line 154
ApproveEmptyText ==
  /\ pc' = "approve:154"
  /\ exitCode' = 1
  /\ UNCHANGED <<pipelineVars, output, newsJson, tweetFiles>>

\* the history of lines 175-186 with the files written before line 169
HistoryAfterTweet_NoShift(history, urlFile) ==
  LET lastUrl == IF urlFile.written THEN urlFile.items ELSE 0
  IN  IF lastUrl # 0 /\ ~ Includes(history, lastUrl) THEN Append(history, lastUrl)
      ELSE history

\* lines 175-186: the history read, lastUrl pushed when it is not empty and
\* not included, the first entry shifted out when there are more than 50
HistoryAfterTweet(history, urlFile) ==
  LET lastUrl == IF urlFile.written THEN urlFile.items ELSE 0
      pushed  == Append(history, lastUrl)
  IN  IF lastUrl # 0 /\ ~ Includes(history, lastUrl)
        THEN IF Len(pushed) > HISTORY_MAX THEN Tail(pushed) ELSE pushed
        ELSE history

\* rwClient.v2.tweet throws after the history has been written
ApproveTweetFails_HistoryFirst ==
  /\ \E text \in TweetTexts : TRUE
  /\ tweetHistory' =
       IF HistoryAfterTweet(HistoryOf(tweetHistory), lastTweetUrl) # HistoryOf(tweetHistory)
         THEN Written(HistoryAfterTweet(HistoryOf(tweetHistory), lastTweetUrl))
         ELSE tweetHistory
  /\ pc' = "approve:194"
  /\ exitCode' = 1
  /\ UNCHANGED <<pipelineVars, output, newsJson, lastTweetDraft, lastTweetUrl, lastTweet>>

\* rwClient.v2.tweet throws: "Failed to post tweet", exit at line 194
ApproveTweetFails ==
  /\ \E text \in TweetTexts : TRUE
  /\ pc' = "approve:194"
  /\ exitCode' = 1
  /\ UNCHANGED <<pipelineVars, output, newsJson, tweetFiles>>

\* the tweet is posted and the history updated, lines 169-188
ApproveTweeted ==
  /\ \E text \in TweetTexts : lastTweet' = [n |-> 1 - lastTweet.n, text |-> text]
  /\ LET history == HistoryOf(tweetHistory)
         after   == HistoryAfterTweet(history, lastTweetUrl)
     IN  tweetHistory' = IF after # history THEN Written(after) ELSE tweetHistory
  /\ pc' = "approve:196"
  /\ exitCode' = 0
  /\ UNCHANGED <<pipelineVars, output, newsJson, lastTweetDraft, lastTweetUrl>>

\* the tweet is posted and fs.writeFile throws at line 187: the inner catch
\* logs "Failed to update history"
ApproveHistoryWriteFails ==
  /\ \E text \in TweetTexts : lastTweet' = [n |-> 1 - lastTweet.n, text |-> text]
  /\ HistoryAfterTweet(HistoryOf(tweetHistory), lastTweetUrl) # HistoryOf(tweetHistory)
  /\ pc' = "approve:191"
  /\ exitCode' = 0
  /\ UNCHANGED <<pipelineVars, output, newsJson, tweetHistory, lastTweetDraft, lastTweetUrl>>

NextBriefing ==
  \/ BriefingUpdateFails
  \/ BriefingReadFails
  \/ BriefingNoFresh
  \/ BriefingDraft
  \/ BriefingWriteFails
  \/ ApproveNoDraft
  \/ ApproveEmptyText
  \/ ApproveTweetFails
  \/ ApproveTweeted
  \/ ApproveHistoryWriteFails

SpecBriefing == InitBriefing /\ [][NextBriefing]_vars

(***************************************************************************)
(* post-to-x: truncate, buildTweet, loadTopNews and main.  A string is the *)
(* tuple of its UTF-16 code units, as String.prototype.length counts them. *)
(***************************************************************************)
TOP_N_X == 3

\* maxTotal of buildTweet
MaxTotal == 280

\* '…'
Ellipsis == <<"ELLIPSIS">>

\* truncate(text, max)
truncate(text, max) ==
  LET clean == trim(CollapseSpaces(text))
  IN  IF Len(clean) <= max THEN clean
      ELSE IF max <= 1 THEN Ellipsis
      ELSE trim(SubSeq(clean, 1, max - 1)) \o Ellipsis

\* readDateNY() and readTimeNY() on some day at some minute
DateLabel == <<"N","o","v"," ","0","5">>

TimeLabel == <<"0","1",":","1","9">>

\* lines[0]; the emoji is two code units
HeaderLine(dateLabel, timeLabel) ==
  <<"BRAIN_HI", "BRAIN_LO">> \o <<" ","T","o","p"," ","3"," ","A","I"," ","h","e","a","d","l","i","n","e","s"," ","(">>
    \o dateLabel \o <<" ">> \o timeLabel \o <<" ","E","T",")">>

\* `${idx + 1}`
Digit(n) == <<<<"0","1","2","3","4","5","6","7","8","9">>[n + 1]>>

\* lines.join('\n')
RECURSIVE Join(_)
Join(lines) ==
  IF Len(lines) = 0 THEN <<>>
  ELSE IF Len(lines) = 1 THEN lines[1]
  ELSE lines[1] \o <<"\n">> \o Join(Tail(lines))

\* the lines of buildTweet, joined
TweetLines(items, dateLabel, timeLabel) ==
  LET header == HeaderLine(dateLabel, timeLabel)
      staticOverhead == Len(header) + 1 + 10
      perLineOverhead == 3 + 4
      remainingForTitles == Max(45, MaxTotal - staticOverhead - TOP_N_X * perLineOverhead)
      perTitle == Max(36, remainingForTitles \div TOP_N_X)
      top == SubSeq(items, 1, Min(Len(items), TOP_N_X))
      line(idx) ==
        Digit(idx) \o <<")", " ">> \o truncate(top[idx].title, perTitle) \o <<" ", "(">>
          \o truncate(IF top[idx].source = <<>> THEN <<"A", "I">> ELSE top[idx].source, 10)
          \o <<")">>
  IN  Join(<<header>> \o [idx \in 1..Len(top) |-> line(idx)] \o << <<"#","A","I"," ","#","T","e","c","h","N","e","w","s">> >>)

\* buildTweet without the truncate of line 102
buildTweet_NoFinalTruncate(items, dateLabel, timeLabel) ==
  TweetLines(items, dateLabel, timeLabel)

\* buildTweet(items)
buildTweet(items, dateLabel, timeLabel) ==
  LET text == TweetLines(items, dateLabel, timeLabel)
  IN  IF Len(text) > MaxTotal THEN truncate(text, MaxTotal) ELSE text

\* loadTopNews() for a news.json that is a non-empty array
loadTopNews(parsed) ==
  LET kept == SelectSeq(parsed, LAMBDA x : x.title # <<>> /\ x.url # <<>>)
  IN  SubSeq(kept, 1, Min(Len(kept), TOP_N_X))

\* how many records news.json has at most
MaxNewsItems == 4

\* n code units with a run of white space after every sixth
Spaced(n) ==
  [i \in 1..n |-> IF i % 9 = 7 THEN " " ELSE IF i % 9 = 8 THEN "\n" ELSE "y"]

Filled(n) == [i \in 1..n |-> "x"]

\* no title, a title of perTitle code units, one of one more, a long one
\* with white space
TweetTitles == {<<>>, Filled(69), Filled(70), Spaced(100)}

\* no source, a source of 10 code units, a long one with white space
TweetSources == {<<>>, Filled(10), Spaced(20)}

NewsItem(title, source) == [title |-> title, source |-> source, url |-> UrlA]

\* the record that a news.json of more than TOP_N records has behind them
FillerItem == NewsItem(Filled(70), Filled(10))

InitTweet ==
  /\ pc = "idle"
  /\ clock = Now0
  /\ settled = [f \in FeedIds |-> <<>>]
  /\ failed = {}
  /\ all = <<>>
  /\ reads = <<>>
  /\ sorted = <<>>
  /\ scored = <<>>
  /\ ranked = <<>>
  /\ output = <<>>
  /\ \E k \in 1..MaxNewsItems :
       \E t \in [1..Min(k, TOP_N_X) -> TweetTitles] :
         \E src \in [1..Min(k, TOP_N_X) -> TweetSources] :
           newsJson = Written([i \in 1..k |->
                                IF i <= TOP_N_X THEN NewsItem(t[i], src[i])
                                ELSE FillerItem])
  /\ exitCode = NONE
  /\ NoTweetFiles

\* fewer than TOP_N items have a title and a url: main throws, exit 1
PostToXTooFew ==
  /\ pc = "idle"
  /\ Len(loadTopNews(newsJson.items)) < TOP_N_X
  /\ pc' = "post:164"
  /\ exitCode' = 1
  /\ UNCHANGED <<pipelineVars, output, newsJson, tweetFiles>>

\* the text is built and X accepts it; lastTweet.text is the text
PostToX ==
  /\ pc = "idle"
  /\ Len(loadTopNews(newsJson.items)) >= TOP_N_X
  /\ output' = loadTopNews(newsJson.items)
  /\ lastTweet' = [n |-> 1 - lastTweet.n,
                   text |-> buildTweet(output', DateLabel, TimeLabel)]
  /\ pc' = "post:177"
  /\ exitCode' = 0
  /\ UNCHANGED <<pipelineVars, newsJson, tweetHistory, lastTweetDraft, lastTweetUrl>>

\* the text is built and X answers with an error: postTweet throws, exit 1
PostToXFails ==
  /\ pc = "idle"
  /\ Len(loadTopNews(newsJson.items)) >= TOP_N_X
  /\ output' = loadTopNews(newsJson.items)
  /\ pc' = "post:148"
  /\ exitCode' = 1
  /\ UNCHANGED <<pipelineVars, newsJson, tweetFiles>>

SpecTweet == InitTweet /\ [][PostToXTooFew \/ PostToX \/ PostToXFails]_vars

(***************************************************************************)
(* Properties of the pipeline and of its stages.                           *)
(***************************************************************************)
\* main has computed its output and is about to write it; nothing but
\* newsJson and exitCode changes after that
Curated == pc = "writing"

\* the url with everything from the first '?' removed
CutAtFirstQuestionMark(url) ==
  LET qs == { j \in 1..Len(url) : url[j] = "?" }
  IN  IF qs = {} THEN url
      ELSE SubSeq(url, 1, (CHOOSE x \in qs : \A y \in qs : x <= y) - 1)

\* the positions in the list s of the item with identity ref
PositionsOf(s, ref) == { i \in 1..Len(s) : s[i].ref = ref }

IsKept(s, ref) == PositionsOf(s, ref) # {}

\* out holds items of inp, each once, in the order of inp
IsSubsequence(out, inp) ==
  /\ \A i \in 1..Len(out) : out[i].ref \in 1..Len(inp) /\ out[i] = inp[out[i].ref]
  /\ \A i, j \in 1..Len(out) : i < j => out[i].ref < out[j].ref

\* the age and the score main computed for candidate k, from the clock
\* readings of its scoring
AgeAtScoring(k) == ageHours(all[k], reads[k][1], reads[k][2])

ScoreAtScoring(k) == scoreItem(all[k], all[k].feedWeight, reads[k][1], reads[k][2])

\* the score field of every item of ranked is the score computed for it
RankedCarryScores ==
  \A i \in 1..Len(ranked) : ranked[i].score = ScoreAtScoring(ranked[i].ref)

\* the output records are those of ranked, position by position
OutputFollowsRanked ==
  /\ Len(output) = Len(ranked)
  /\ \A i \in 1..Len(output) :
       /\ output[i].title = ranked[i].title
       /\ output[i].url = ranked[i].url
       /\ output[i].source = ranked[i].source

\* how many items of list s come from source src
CountOfSource(s, src) == Cardinality({ i \in 1..Len(s) : s[i].source = src })

(***************************************************************************)
(* C1: the output of dedupe never contains two items with the same         *)
(* normalized URL (the url with everything from the first '?' removed) or  *)
(* the same normalized title (normalizeTitle of the title).                *)
(***************************************************************************)
C1_DedupeKeysDistinct ==
  \A i, j \in 1..Len(scored) :
    i < j =>
      /\ CutAtFirstQuestionMark(scored[i].url) # CutAtFirstQuestionMark(scored[j].url)
      /\ normalizeTitle(scored[i].title) # normalizeTitle(scored[j].title)

(***************************************************************************)
(* C2: a candidate whose age at scoring time exceeds 72 hours never        *)
(* appears in the curated output, whatever its weight and title.           *)
(***************************************************************************)
C2_OldItemsExcluded ==
  Curated =>
    /\ OutputFollowsRanked
    /\ \A k \in 1..Len(all) : AgeAtScoring(k) > 72 => ~IsKept(ranked, k)

\* an item past the cutoff with a bonus keyword, no finance noise and the
\* highest feed weight was scored, and the output is not empty
C2_Witness ==
  /\ Curated
  /\ Len(output) > 0
  /\ \E k \in 1..Len(all) :
       /\ AgeAtScoring(k) > 72
       /\ all[k].feedWeight = 4
       /\ MatchesBonus(all[k].title)
       /\ ~MatchesFinanceNoise(all[k].title)

(***************************************************************************)
(* C3: the output of applySourceDiversity contains at most MAX_PER_SOURCE  *)
(* (2) items of any one source.                                            *)
(***************************************************************************)
C3_AtMostTwoPerSource ==
  \A src \in FeedIds : CountOfSource(ranked, src) <= 2

\* a source with more items than the cap came in, and the cap was filled
C3_Witness ==
  /\ pc = "diversified"
  /\ \E src \in FeedIds :
       /\ CountOfSource(scored, src) > 2
       /\ CountOfSource(ranked, src) = 2

(***************************************************************************)
(* C4: the curated output of main has at most TOP_N (10) records and at    *)
(* most as many as there are flattened candidates.                         *)
(***************************************************************************)
C4_OutputLengthBounded ==
  Curated => Len(output) <= 10 /\ Len(output) <= Len(all)

\* more than TOP_N deduplicated items passed the per-source cap, ten are out
C4_Witness ==
  /\ Curated
  /\ Len(output) = 10
  /\ Cardinality({ k \in 1..Len(scored) :
                   Cardinality({ i \in 1..(k-1) : scored[i].source = scored[k].source }) < 2 })
       > 10

(***************************************************************************)
(* C5: the curated output is in non-increasing order of the scores         *)
(* computed for its items.                                                 *)
(***************************************************************************)
C5_OutputSortedByScore ==
  Curated =>
    /\ OutputFollowsRanked
    /\ RankedCarryScores
    /\ \A i, j \in 1..Len(ranked) : i < j => ranked[i].score >= ranked[j].score

\* the output holds items of different scores that arrived in the other order
C5_Witness ==
  /\ Curated
  /\ RankedCarryScores
  /\ \E i, j \in 1..Len(ranked) :
       /\ i < j
       /\ ranked[i].ref > ranked[j].ref
       /\ ranked[i].score > ranked[j].score

(***************************************************************************)
(* C6: of two candidates with identical computed scores that both appear   *)
(* in the curated output, the one earlier in the flattened candidate list  *)
(* is earlier in the output.                                               *)
(***************************************************************************)
C6_TiesKeepArrivalOrder ==
  Curated =>
    /\ OutputFollowsRanked
    /\ RankedCarryScores
    /\ \A i, j \in 1..Len(ranked) :
         (ranked[i].score = ranked[j].score /\ ranked[i].ref < ranked[j].ref) => i < j

\* two candidates of different feeds with one score are both in the output
C6_Witness ==
  /\ Curated
  /\ RankedCarryScores
  /\ \E i, j \in 1..Len(ranked) :
       /\ i < j
       /\ ranked[i].source # ranked[j].source
       /\ ranked[i].score = ranked[j].score

(***************************************************************************)
(* C7, as claimed: two items with distinct URLs whose titles are one       *)
(* headline followed by a site suffix, one after a hyphen and one after an *)
(* em dash, have equal normalized titles, and dedupe keeps only the        *)
(* earlier one.                                                            *)
(***************************************************************************)
SameHeadline(i, j, t1, t2) ==
  /\ i < j
  /\ {sorted[i].title, sorted[j].title} = {t1, t2}
  /\ CutAtFirstQuestionMark(sorted[i].url) # CutAtFirstQuestionMark(sorted[j].url)

C7_HyphenAndEmDashCollapse ==
  pc = "deduped" =>
    \A i, j \in 1..Len(sorted) :
      SameHeadline(i, j, TitleHyphen, TitleEmDash) =>
        /\ normalizeTitle(sorted[i].title) = normalizeTitle(sorted[j].title)
        /\ ~(IsKept(scored, i) /\ IsKept(scored, j))
        /\ (Len(sorted) = 2 => scored = <<sorted[1]>>)

(***************************************************************************)
(* C7, amended: when one suffix follows a hyphen and the other a pipe, the *)
(* normalized titles are equal, dedupe never keeps both items, and of the  *)
(* two alone it keeps only the earlier one; an em dash is no separator of  *)
(* normalizeTitle, so a title with one keeps its suffix, the normalized    *)
(* titles differ and dedupe keeps both items.                              *)
(***************************************************************************)
C7_HyphenAndPipeCollapse ==
  pc = "deduped" =>
    \A i, j \in 1..Len(sorted) :
      /\ SameHeadline(i, j, TitleHyphen, TitlePipe) =>
           /\ normalizeTitle(sorted[i].title) = normalizeTitle(sorted[j].title)
           /\ ~(IsKept(scored, i) /\ IsKept(scored, j))
           /\ (Len(sorted) = 2 => scored = <<sorted[1]>>)
      /\ SameHeadline(i, j, TitleHyphen, TitleEmDash) =>
           /\ normalizeTitle(sorted[i].title) # normalizeTitle(sorted[j].title)
           /\ (Len(sorted) = 2 => scored = sorted)

\* the hyphen and the pipe spelling came in alone, the later was dropped
C7_Witness ==
  /\ pc = "deduped"
  /\ Len(sorted) = 2
  /\ SameHeadline(1, 2, TitleHyphen, TitlePipe)
  /\ scored = <<sorted[1]>>

(***************************************************************************)
(* C8: the output of dedupe is a subsequence of its input, and an input    *)
(* item is kept if and only if neither of its keys is empty and no earlier *)
(* kept item has the same URL key or the same title key.                   *)
(***************************************************************************)
C8_DedupeIsStreamingFilter ==
  pc = "deduped" =>
    /\ IsSubsequence(scored, sorted)
    /\ \A k \in 1..Len(sorted) :
         IsKept(scored, k) <=>
           /\ urlKey(sorted[k].url) # <<>>
           /\ normalizeTitle(sorted[k].title) # <<>>
           /\ \A e \in 1..(k-1) :
                IsKept(scored, e) =>
                  /\ urlKey(sorted[e].url) # urlKey(sorted[k].url)
                  /\ normalizeTitle(sorted[e].title) # normalizeTitle(sorted[k].title)

\* an item was dropped for its URL key, and a later item with the dropped
\* item's title key was kept
C8_Witness ==
  /\ pc = "deduped"
  /\ \E d, k \in 1..Len(sorted) :
       /\ d < k
       /\ ~IsKept(scored, d)
       /\ IsKept(scored, k)
       /\ normalizeTitle(sorted[d].title) = normalizeTitle(sorted[k].title)
       /\ normalizeTitle(sorted[d].title) # <<>>
       /\ urlKey(sorted[d].url) # <<>>

(***************************************************************************)
(* C9: the output of applySourceDiversity is a subsequence of its input,   *)
(* and an input item is left out only if MAX_PER_SOURCE items of its       *)
(* source were kept before it or TOP_N items were kept before it.          *)
(***************************************************************************)
KeptBefore(k) == { i \in 1..Len(ranked) : ranked[i].ref < k }

C9_DiversityOnlySkips ==
  pc = "diversified" =>
    /\ IsSubsequence(ranked, scored)
    /\ \A k \in 1..Len(scored) :
         ~IsKept(ranked, k) =>
           \/ Cardinality({ i \in KeptBefore(k) : ranked[i].source = scored[k].source }) >= 2
           \/ Cardinality(KeptBefore(k)) >= 10

\* one item was skipped for its source's cap, a later one kept, and another
\* left out because ten were kept
C9_Witness ==
  /\ pc = "diversified"
  /\ \E a, b, c \in 1..Len(scored) :
       /\ a < b /\ b < c
       /\ ~IsKept(ranked, a)
       /\ IsKept(ranked, b)
       /\ ~IsKept(ranked, c)
       /\ Cardinality({ i \in KeptBefore(c) : ranked[i].source = scored[c].source }) < 2

(***************************************************************************)
(* C10: applySourceDiversity returns min(TOP_N, sum over the sources of    *)
(* min(MAX_PER_SOURCE, number of input items of the source)) items; nine   *)
(* sources with three items each give exactly ten, at most two per source. *)
(***************************************************************************)
AvailableAfterCap ==
  Cardinality({ <<src, k>> \in FeedIds \X (1..2) : CountOfSource(scored, src) >= k })

C10_DiversityCount ==
  pc = "diversified" =>
    /\ Len(ranked) = Min(10, AvailableAfterCap)
    /\ (\A src \in FeedIds : CountOfSource(scored, src) = 3) =>
         /\ Len(ranked) = 10
         /\ \A src \in FeedIds : CountOfSource(ranked, src) <= 2

\* nine sources with three items each came in, ten items went out
C10_Witness ==
  /\ pc = "diversified"
  /\ \A src \in FeedIds : CountOfSource(scored, src) = 3
  /\ Len(ranked) = 10

(***************************************************************************)
(* C11: a run of main that finishes without an exception exits with status *)
(* 1 if and only if the curated list is empty; a list that is not empty    *)
(* and shorter than TOP_N ends in status 0.                                *)
(***************************************************************************)
\* main reached one of its own process.exit calls: news.json was written
FinishedWithoutException == pc = "exited" /\ newsJson.written

C11_ExitOneIffEmpty ==
  FinishedWithoutException =>
    /\ newsJson.items = output
    /\ OutputFollowsRanked
    /\ (exitCode = 1 <=> Len(ranked) = 0)
    /\ (Len(ranked) \in 1..(TOP_N - 1) => exitCode = 0)
    /\ exitCode \in {0, 1}

\* a run that wrote a list of between one and TOP_N - 1 items and exited
C11_Witness ==
  /\ FinishedWithoutException
  /\ Len(ranked) \in 1..(TOP_N - 1)
  /\ exitCode = 0

\* every feed failed: the run wrote the empty list and exited with 1
C11_EmptyRunFails ==
  /\ FinishedWithoutException
  /\ \A f \in FeedIds : settled[f] = <<>>
  /\ Len(output) = 0
  /\ exitCode = 1

(***************************************************************************)
(* C12: a feed whose fetch or parse throws or times out is not fatal:      *)
(* fetchFeed returns the empty list for it, the run does not abort, and    *)
(* the flattened candidate list is the concatenation of the items of the   *)
(* feeds that succeeded, as if the failed feeds had returned no items.     *)
(***************************************************************************)
AllSettled == \A f \in FeedIds : settled[f] # PENDING

\* the candidates of list a that came from feed f, in the order of a
ItemsOfFeed(a, f) == SelectSeq(a, LAMBDA item : item.source = f)

\* the candidates of feed f in the list a are the items its fetch gave
SameItems(a, f, items) ==
  LET mine == ItemsOfFeed(a, f)
  IN  /\ Len(mine) = Len(items)
      /\ \A i \in 1..Len(items) : mine[i] = items[i] @@ [ref |-> mine[i].ref]

RECURSIVE SumOfLengths(_, _)
SumOfLengths(results, f) ==
  IF f > Len(FEEDS) THEN 0 ELSE Len(results[f]) + SumOfLengths(results, f + 1)

C12_FailedFeedIsNotFatal ==
  /\ pc # "fetching" => AllSettled
  /\ \A f \in failed : settled[f] = <<>>
  /\ (failed # {} /\ pc = "exited" /\ newsJson.written) =>
       (exitCode = 0 <=> Len(output) > 0)
  /\ Curated =>
       /\ \A f \in FeedIds :
            SameItems(all, f, IF f \in failed THEN <<>> ELSE settled[f])
       /\ Len(all) = SumOfLengths([f \in FeedIds |-> IF f \in failed THEN <<>>
                                                     ELSE settled[f]], 1)

\* a run in which a feed failed between two feeds that succeeded went on to
\* curate a list with the items of both
C12_Witness ==
  /\ Curated
  /\ \E f \in failed :
       /\ \E i \in 1..Len(output) : output[i].source < f
       /\ \E i \in 1..Len(output) : output[i].source > f

(***************************************************************************)
(* C13: feed fetches are order-independent: whatever the order in which    *)
(* the concurrent fetchFeed calls complete or fail, scoring and dedup      *)
(* start only after every fetch has settled, and the flattened candidate   *)
(* list is in FEEDS declaration order, so it is one list for all           *)
(* completion orders.                                                      *)
(***************************************************************************)
\* the list a holds the feeds' items feed by feed, in the order of FEEDS
InFeedsOrder(a) ==
  \A i \in 1..(Len(a) - 1) : a[i].source <= a[i + 1].source

C13_FetchOrderIndependent ==
  /\ (Len(all) > 0 \/ Len(sorted) > 0 \/ Len(scored) > 0 \/ Len(ranked) > 0
       \/ pc \in {"writing", "exited"}) => AllSettled
  /\ Curated =>
       /\ InFeedsOrder(all)
       /\ \A f \in FeedIds : SameItems(all, f, settled[f])
       /\ \A i \in 1..Len(all) : all[i].ref = i

\* the candidates of the first and of the last feed were gathered after time
\* passed during the fetches
C13_Witness ==
  /\ Curated
  /\ clock > Now0
  /\ Len(all) > 1
  /\ all[1].source = 1
  /\ all[Len(all)].source = Len(FEEDS)
  /\ \E f \in FeedIds : Len(settled[f]) > 2

(***************************************************************************)
(* C14: scoreItem is deterministic given now: within one run the score is  *)
(* a function of the item, the feed weight and now only, so two candidates *)
(* with identical title, publishedAt and feed weight that are scored in    *)
(* the same run receive identical scores.                                  *)
(***************************************************************************)
\* main has scored, filtered and sorted the candidates
ScoreDone == pc = "sorted"

C14_IdenticalItemsScoreAlike ==
  ScoreDone =>
    \A i, j \in 1..Len(all) :
      ( /\ all[i].title = all[j].title
        /\ all[i].publishedAt = all[j].publishedAt
        /\ all[i].feedWeight = all[j].feedWeight )
      => ScoreAtScoring(i) = ScoreAtScoring(j)

(***************************************************************************)
(* C15: an item whose publishedAt is missing or does not parse raises no   *)
(* error and is treated as age 0: scoreItem gives it the score of an       *)
(* otherwise identical item published exactly at now, and the hard age     *)
(* cutoff never removes it.                                                *)
(***************************************************************************)
\* candidate k, had it been published at the instant its Date.now() returned
PublishedAtNow(k) == [all[k] EXCEPT !.publishedAt = Time(reads[k][2])]

C15_MissingDateIsAgeZero ==
  ScoreDone =>
    \A k \in 1..Len(all) :
      all[k].publishedAt.kind # "time" =>
        /\ IsKept(sorted, k)
        /\ AgeAtScoring(k) = 0
        /\ ScoreAtScoring(k) = scoreItem(PublishedAtNow(k), all[k].feedWeight,
                                         reads[k][1], reads[k][2])

(***************************************************************************)
(* C16: the cutoff sentinel separates cleanly: for every title and every   *)
(* configured feed weight scoreItem returns -9999 when the age exceeds 72  *)
(* hours and a value greater than -100 when it is at most 72 hours, so the *)
(* filter score > -100 of main removes exactly the items older than the    *)
(* cutoff.                                                                 *)
(***************************************************************************)
C16_SentinelSeparates ==
  ScoreDone =>
    \A k \in 1..Len(all) :
      /\ AgeAtScoring(k) > 72 =>
           ScoreAtScoring(k) = (0 - 9999) * Scale /\ ~IsKept(sorted, k)
      /\ AgeAtScoring(k) <= 72 =>
           ScoreAtScoring(k) > (0 - 100) * Scale /\ IsKept(sorted, k)

\* an item of the lowest weight with a finance word and no bonus word, aged
\* exactly 72 hours, passed the filter, and its copy aged 73 hours did not
C16_Witness ==
  /\ ScoreDone
  /\ \E i, j \in 1..Len(all) :
       /\ AgeAtScoring(i) = 72 /\ AgeAtScoring(j) = 73
       /\ all[i].feedWeight = 1 /\ all[j].feedWeight = 1
       /\ all[i].title = all[j].title
       /\ MatchesFinanceNoise(all[i].title) /\ ~MatchesBonus(all[i].title)
       /\ IsKept(sorted, i) /\ ~IsKept(sorted, j)

(***************************************************************************)
(* C17, as claimed: the noise penalty outweighs the topic bonus: of two    *)
(* items equal in age, feed weight and title length, the one whose title   *)
(* matches both a finance-noise pattern and a bonus keyword scores         *)
(* strictly lower than the one whose title matches neither.                *)
(***************************************************************************)
\* i and j are equal in age, weight and title length; the title of i has a
\* finance word and a bonus word, the title of j has neither
NoisyTopicalAndPlain(i, j) ==
  /\ AgeAtScoring(i) = AgeAtScoring(j)
  /\ all[i].feedWeight = all[j].feedWeight
  /\ Len(all[i].title) = Len(all[j].title)
  /\ MatchesFinanceNoise(all[i].title) /\ MatchesBonus(all[i].title)
  /\ ~MatchesFinanceNoise(all[j].title) /\ ~MatchesBonus(all[j].title)

C17_PenaltyOutweighsBonus ==
  ScoreDone =>
    \A i, j \in 1..Len(all) :
      NoisyTopicalAndPlain(i, j) => ScoreAtScoring(i) < ScoreAtScoring(j)

(***************************************************************************)
(* C17, amended: the same for two items whose age is at most 72 hours;     *)
(* past the cutoff both score -9999.                                       *)
(***************************************************************************)
C17_PenaltyOutweighsBonusWithinCutoff ==
  ScoreDone =>
    \A i, j \in 1..Len(all) :
      (NoisyTopicalAndPlain(i, j) /\ AgeAtScoring(i) <= 72)
        => ScoreAtScoring(i) < ScoreAtScoring(j)

\* such a pair was scored at the age of 72 hours
C17_Witness ==
  /\ ScoreDone
  /\ \E i, j \in 1..Len(all) :
       NoisyTopicalAndPlain(i, j) /\ AgeAtScoring(i) = 72

(***************************************************************************)
(* C18: recency decays with age: of two items identical in title and feed  *)
(* weight with ages a1 < a2 <= 72 hours the one of age a1 scores strictly  *)
(* higher, and an item of age 0 gets the full recency credit of 10.        *)
(***************************************************************************)
\* what scoreItem adds to the recency term
ScoreWithoutRecency(item) ==
  item.feedWeight * (Scale \div 2) + titleQuality(item.title)
    + (IF MatchesBonus(item.title) THEN 2 * Scale ELSE 0)
    - (IF MatchesFinanceNoise(item.title) THEN 5 * Scale ELSE 0)

C18_RecencyDecays ==
  ScoreDone =>
    /\ \A i, j \in 1..Len(all) :
         ( /\ all[i].title = all[j].title
           /\ all[i].feedWeight = all[j].feedWeight
           /\ AgeAtScoring(i) < AgeAtScoring(j)
           /\ AgeAtScoring(j) <= 72 )
         => ScoreAtScoring(i) > ScoreAtScoring(j)
    /\ \A k \in 1..Len(all) :
         AgeAtScoring(k) = 0 =>
           ScoreAtScoring(k) - ScoreWithoutRecency(all[k]) = 10 * Scale

\* two copies of one item were scored at the ages of 0 and 1 hours, and two
\* at the ages of 1 and 72 hours could be
C18_Witness ==
  /\ ScoreDone
  /\ \E i, j \in 1..Len(all) :
       /\ all[i].title = all[j].title
       /\ all[i].feedWeight = all[j].feedWeight
       /\ AgeAtScoring(i) = 0
       /\ AgeAtScoring(j) = 1
       /\ ScoreAtScoring(i) > ScoreAtScoring(j)

(***************************************************************************)
(* C19: the URL dedup key of dedupe is the URL with everything from the    *)
(* first '?' onward removed: two URLs that differ only in their query      *)
(* string get the same key, while URLs that differ in scheme, trailing     *)
(* slash, or a fragment placed before any '?' get different keys.          *)
(***************************************************************************)
C19_UrlKeyCutsQuery ==
  pc = "deduped" =>
    /\ \A i \in 1..Len(sorted) :
         urlKey(sorted[i].url) = CutAtFirstQuestionMark(sorted[i].url)
    /\ \A i, j \in 1..Len(sorted) :
         (urlKey(sorted[i].url) = urlKey(sorted[j].url))
           <=> (CutAtFirstQuestionMark(sorted[i].url)
                  = CutAtFirstQuestionMark(sorted[j].url))

(***************************************************************************)
(* C20: for every title, normalizeTitle returns a string made only of the  *)
(* characters a-z, 0-9 and single interior spaces (no leading, trailing or *)
(* doubled white space) that contains nothing from the first hyphen, pipe  *)
(* or bullet onward, and normalizeTitle is idempotent.                     *)
(***************************************************************************)
\* the title up to its first hyphen, pipe or bullet
BeforeFirstSeparator(t) ==
  LET seps == { j \in 1..Len(t) : t[j] \in {"-", "|", "BULLET"} }
  IN  IF seps = {} THEN t
      ELSE SubSeq(t, 1, (CHOOSE x \in seps : \A y \in seps : x <= y) - 1)

\* lower case, everything but a-z, 0-9 and white space blanked, white space
\* collapsed, trimmed
CleanText(t) == trim(CollapseSpaces(BlankNonAlnum(toLowerCase(t))))

IsPrefix(p, t) == Len(p) <= Len(t) /\ SubSeq(t, 1, Len(p)) = p

\* only a-z, 0-9 and single spaces, none of them first or last
IsCleanKey(n) ==
  /\ \A k \in 1..Len(n) : n[k] \in LowerAlnum \cup {" "}
  /\ n # <<>> => n[1] # " " /\ n[Len(n)] # " "
  /\ \A k \in 1..(Len(n) - 1) : ~(n[k] = " " /\ n[k + 1] = " ")

C20_NormalizeTitleShape ==
  pc = "deduped" =>
    \A i \in 1..Len(sorted) :
      LET n == normalizeTitle(sorted[i].title)
      IN  /\ IsCleanKey(n)
          /\ normalizeTitle(n) = n
          /\ IsPrefix(n, CleanText(BeforeFirstSeparator(sorted[i].title)))
          /\ IsKept(scored, sorted[i].ref) <=> n # <<>>

(***************************************************************************)
(* C21: in one curation run the output item at 0-based position i has the *)
(* id made of its date (the day derived from publishedAt), '-' and i+1,    *)
(* and the ids of that run's output are pairwise distinct.                 *)
(***************************************************************************)
C21_IdIsDateAndRank ==
  Curated =>
    /\ \A i \in 1..Len(output) : output[i].id = <<output[i].date, i>>
    /\ \A i, j \in 1..Len(output) : i # j => output[i].id # output[j].id

(***************************************************************************)
(* C22: a feed entry whose title or link is missing, empty or only white   *)
(* space is dropped by fetchFeed before scoring: every candidate that      *)
(* reaches scoreItem and dedupe has a trimmed title and a trimmed url that *)
(* are not empty.                                                          *)
(***************************************************************************)
\* the text is not empty and has no white space at its ends
IsTrimmedText(s) == s # <<>> /\ trim(s) = s

C22_CandidatesHaveTitleAndUrl ==
  /\ \A f \in FeedIds :
       settled[f] # PENDING =>
         \A i \in 1..Len(settled[f]) :
           IsTrimmedText(settled[f][i].title) /\ IsTrimmedText(settled[f][i].url)
  /\ \A k \in 1..Len(all) : IsTrimmedText(all[k].title) /\ IsTrimmedText(all[k].url)
  /\ \A k \in 1..Len(sorted) :
       IsTrimmedText(sorted[k].title) /\ IsTrimmedText(sorted[k].url)

\* a feed gave entries without a title and with a link of white space, and
\* fewer candidates than entries came out of its fetchFeed; they were scored
C22_Witness ==
  /\ Curated
  /\ \E f \in FeedIds :
       /\ \E e \in FeedAnswers(f) :
            /\ \E i \in 1..Len(e) : ~e[i].title.has
            /\ \E i \in 1..Len(e) : e[i].link.has /\ trim(e[i].link.s) = <<>>
            /\ Len(settled[f]) = Len(e) - 2
            /\ Len(settled[f]) > 0
       /\ \E k \in 1..Len(sorted) : sorted[k].source = f

(***************************************************************************)
(* The YouTube pipeline.                                                   *)
(***************************************************************************)
\* candidates i and j of main are identical except for publishedAt, both
\* published less than 72 hours before the run, i after j
SameButPublishedLater(i, j) ==
  /\ sorted[i].title = sorted[j].title
  /\ sorted[i].url = sorted[j].url
  /\ sorted[i].source = sorted[j].source
  /\ sorted[i].feedWeight = sorted[j].feedWeight
  /\ sorted[i].publishedAt.kind = "time"
  /\ sorted[j].publishedAt.kind = "time"
  /\ sorted[i].publishedAt.t > sorted[j].publishedAt.t
  /\ Now0 - sorted[i].publishedAt.t < 72
  /\ Now0 - sorted[j].publishedAt.t < 72

\* C23: of two candidates of the YouTube pipeline that fetchFeed produced and
\* that are identical except for publishedAt, both younger than 72 hours,
\* the one published later has the strictly higher score in main
C23_LaterVideoScoresHigher ==
  pc = "writing" =>
    \A i, j \in 1..Len(sorted) :
      SameButPublishedLater(i, j) => sorted[i].score > sorted[j].score

\* the url of item i and that of item j are the same up to the first '?'
SameUpToQuery(i, j) ==
  \E n \in 1..Min(Len(sorted[i].url), Len(sorted[j].url)) :
    /\ sorted[i].url[n] = "?"
    /\ sorted[j].url[n] = "?"
    /\ \A m \in 1..(n - 1) : sorted[i].url[m] # "?"
    /\ SubSeq(sorted[i].url, 1, n) = SubSeq(sorted[j].url, 1, n)

\* the part of a url before its first '&', the url itself when it has none
BeforeAmpersand(url) ==
  LET amps == { j \in 1..Len(url) : url[j] = "&" }
  IN  IF amps = {} THEN url
      ELSE SubSeq(url, 1, (CHOOSE x \in amps : \A y \in amps : x <= y) - 1)

NoAmpersand(url) == \A m \in 1..Len(url) : url[m] # "&"

NoLineTerminator(url) == \A m \in 1..Len(url) : url[m] \notin LineTerminators

\* the url of item i and that of item j are the same up to the first '&',
\* which one of them at least has, and neither has a line terminator
SameUpToAmpersand(i, j) ==
  /\ BeforeAmpersand(sorted[i].url) = BeforeAmpersand(sorted[j].url)
  /\ ~ (NoAmpersand(sorted[i].url) /\ NoAmpersand(sorted[j].url))
  /\ NoLineTerminator(sorted[i].url)
  /\ NoLineTerminator(sorted[j].url)

\* the urls of items i and j have no '&', are the same up to the first '?'
\* and differ in the query string
DifferInQueryOnly(i, j) ==
  /\ SameUpToQuery(i, j)
  /\ sorted[i].url # sorted[j].url
  /\ NoAmpersand(sorted[i].url)
  /\ NoAmpersand(sorted[j].url)

KeptYT(i) == \E k \in 1..Len(scored) : scored[k].ref = sorted[i].ref

DifferentTitles(i, j) == normalizeTitle(sorted[i].title) # normalizeTitle(sorted[j].title)

\* C24 as the claim states it: of two items with different titles whose
\* urls are the same up to the first '?' and differ behind it, dedupe keeps
\* one at most
C24_QueryStringIsCut ==
  pc = "writing" =>
    \A i, j \in 1..Len(sorted) :
      (i < j /\ DifferentTitles(i, j) /\ SameUpToQuery(i, j)
         /\ sorted[i].url # sorted[j].url)
        => ~ (KeptYT(i) /\ KeptYT(j))

\* C24, amended: the key is the url up to the first '&'.  Of two items
\* whose urls are the same up to the first '&' the later one is never kept
\* when the earlier one is; two urls without '&' that differ in the query
\* string have different keys, and two items with such urls and different
\* titles are both kept when they are the only candidates
C24_AmpersandTailIsCut ==
  pc = "writing" =>
    \A i, j \in 1..Len(sorted) :
      /\ (i < j /\ SameUpToAmpersand(i, j) /\ KeptYT(i)) => ~ KeptYT(j)
      /\ (i < j /\ SameUpToAmpersand(i, j))
           => urlKeyYT(sorted[i].url) = urlKeyYT(sorted[j].url)
      /\ (i < j /\ DifferInQueryOnly(i, j))
           => urlKeyYT(sorted[i].url) # urlKeyYT(sorted[j].url)
      /\ (Len(sorted) = 2 /\ i = 1 /\ j = 2 /\ DifferentTitles(i, j)
             /\ DifferInQueryOnly(i, j))
           => (KeptYT(i) /\ KeptYT(j))

\* three candidates with different titles: two whose urls differ in the
\* query string are both kept, and the third, whose url differs from the
\* first one's behind the '&' only, is dropped
C24_Witness ==
  /\ pc = "writing"
  /\ \E i, j, k \in 1..Len(sorted) :
       /\ i < j
       /\ DifferentTitles(i, j) /\ DifferentTitles(i, k) /\ DifferentTitles(j, k)
       /\ DifferInQueryOnly(i, k)
       /\ SameUpToAmpersand(i, j)
       /\ KeptYT(i) /\ KeptYT(k) /\ ~ KeptYT(j)

(***************************************************************************)
(* The briefing and the approve runs.                                      *)
(***************************************************************************)
\* the step is an approve run that X accepted the tweet of
Tweeted == lastTweet' # lastTweet

\* no url is twice in the history: it has as many urls as entries
NoDuplicates(history) ==
  Cardinality({ history[i] : i \in 1..Len(history) }) = Len(history)

\* C25: no approve run posts the draft for a url that is in the tweet
\* history when the run starts, that is, a url posted before and not
\* evicted since
C25_NoRepostWhileInHistory ==
  [][(Tweeted /\ lastTweet'.text.kind = "draft")
       => ~ Includes(HistoryOf(tweetHistory), lastTweet'.text.url)]_vars

\* C26: after every run the history has no url twice and 50 entries at
\* most, and a run that changes it appends the saved url, after dropping the
\* oldest entry when there were 50 already
C26_HistoryBoundedNoDuplicates ==
  [][/\ NoDuplicates(HistoryOf(tweetHistory'))
     /\ Len(HistoryOf(tweetHistory')) <= HISTORY_MAX
     /\ HistoryOf(tweetHistory') # HistoryOf(tweetHistory)
          => /\ lastTweetUrl.written
             /\ HistoryOf(tweetHistory') =
                  Append(IF Len(HistoryOf(tweetHistory)) = HISTORY_MAX
                           THEN Tail(HistoryOf(tweetHistory))
                           ELSE HistoryOf(tweetHistory),
                         lastTweetUrl.items)]_vars

\* the history is full, its oldest entries have been evicted, and the first
\* url of all is in it again
C26_Witness ==
  /\ Len(HistoryOf(tweetHistory)) = HISTORY_MAX
  /\ HistoryOf(tweetHistory)[1] # 1
  /\ HistoryOf(tweetHistory)[HISTORY_MAX] = 1

\* C27: the history changes only in an approve run whose tweet X accepted,
\* and an approve run whose tweet call throws exits with status 1 and
\* leaves the history, the draft and the saved url as they were
C27_HistoryOnlyAfterTweet ==
  [][/\ tweetHistory' # tweetHistory => (Tweeted /\ pc' = "approve:196")
     /\ pc' = "approve:194"
          => (exitCode' = 1 /\ ~ Tweeted
                /\ UNCHANGED <<tweetHistory, lastTweetDraft, lastTweetUrl>>)]_vars

\* the tweet call threw in a run that would have appended the saved url
C27_Witness ==
  /\ pc = "approve:194"
  /\ exitCode = 1
  /\ lastTweetDraft.written
  /\ lastTweetUrl.written
  /\ ~ Includes(HistoryOf(tweetHistory), lastTweetUrl.items)
  /\ HistoryOf(tweetHistory) # <<>>

(***************************************************************************)
(* The tweet of post-to-x.                                                 *)
(***************************************************************************)
\* the values of max that truncate is called with, and small ones
TruncateMaxes == {1, 2, 10, 69, MaxTotal}

\* C28: buildTweet returns at most 280 code units for every list of three
\* items or more, the one main passes and the whole of news.json, and
\* truncate(text, max) returns at most max code units for max >= 1
C28_TweetFits ==
  /\ pc = "post:177" => Len(lastTweet.text) <= MaxTotal
  /\ Len(newsJson.items) >= TOP_N_X
       => Len(buildTweet(newsJson.items, DateLabel, TimeLabel)) <= MaxTotal
  /\ \A i \in 1..Len(newsJson.items) : \A max \in TruncateMaxes :
       /\ Len(truncate(newsJson.items[i].title, max)) <= max
       /\ Len(truncate(newsJson.items[i].source, max)) <= max

\* three long titles and long sources: the joined lines have more than 280
\* code units and the tweet that is posted has 280, ending in the ellipsis
C28_Witness ==
  /\ pc = "post:177"
  /\ Len(TweetLines(output, DateLabel, TimeLabel)) > MaxTotal
  /\ Len(lastTweet.text) = MaxTotal
  /\ lastTweet.text[MaxTotal] = "ELLIPSIS"
  /\ \E i \in 1..Len(output) : Len(output[i].title) > 69

====
